---- MODULE Spec2Model ----
(***************************************************************************)
(* ResilientCacheClient (src/unnamed/part_004): the connection state       *)
(* machine and the command execution pipeline, at the granularity of the   *)
(* JavaScript event loop.  One action is one synchronous run of code: an   *)
(* API call up to its first suspension, the continuation of an await, a    *)
(* driver event handler or a timer callback.  The ioredis driver and the   *)
(* server are the environment: when a connect settles, how a command is    *)
(* answered and which lifecycle events a handle emits are chosen           *)
(* nondeterministically.                                                   *)
(***************************************************************************)
EXTENDS Integers, Sequences, FiniteSets, TLC

\* ------------------------------------------------------------------ bounds
MaxTime == 2            \* the clock stops after this many ticks
MaxHandles == 2         \* driver handles (new Redis) created in one behaviour
MaxOps == 1             \* data operations entered in the history in one behaviour
MaxCalls == 3           \* decrementOrInit calls made in one behaviour
MaxPair == 2            \* set and get calls made in one behaviour
MaxObservers == 2       \* observers registered on the client, of both kinds together
MaxProviderCalls == 4   \* calls of CacheProvider made in one behaviour
ScanBatch == 3          \* keys the server visits in one SCAN round
AttemptsCap == 2        \* no further failure is injected at this many reconnectAttempts

\* --------------------------------------------------------- program constants
MAX_KEY_LENGTH == 512

Callers == {"a", "b"}   \* concurrent callers of the client API

ConnectionStates ==
  {"disconnected", "connecting", "connected", "reconnecting", "cooldown", "failed"}

NoTime == 0 - 1         \* an unset Date field
NoErr == "none"         \* an unset Error field
NoHandle == 0           \* redis === null / connectPromise === null

\* ------------------------------------------------------------------ errors
\* An Error value is named by a token; ErrorCode is its .code property and
\* MessageHasConnectionIsClosed tells whether its message includes
\* 'Connection is closed'.
connectionErrorCodes ==
  {"ECONNREFUSED", "ETIMEDOUT", "ENOTCONN", "ECONNRESET", "EPIPE",
   "EHOSTUNREACH", "ENETUNREACH"}

ClosedError == "Connection is closed."      \* ioredis: message, no code
CloseEventError == "Connection closed"      \* created by boundCloseHandler
WrongTypeReply == "WRONGTYPE"               \* a reply error of the server
NotWriteable == "Stream isn't writeable"    \* ioredis: handle not ready, no offline queue
NullDeref == "TypeError: null"              \* this.redis!.x() with redis null
TimeoutError == "CacheTimeoutError"         \* created by the Timeout Guard

ErrorCode(e) == IF e \in connectionErrorCodes THEN e ELSE ""

MessageHasConnectionIsClosed(e) == e = ClosedError

isConnectionError_Mutant(e) == MessageHasConnectionIsClosed(e)

isConnectionError(e) ==
  \/ (ErrorCode(e) # "" /\ ErrorCode(e) \in connectionErrorCodes)
  \/ MessageHasConnectionIsClosed(e)

\* ----------------------------------------------------------------- options
\* maxReconnectAttempts: Infinity is [inf |-> TRUE].
Unbounded == [inf |-> TRUE, n |-> 0]
MaxAttemptsSamples == {Unbounded, [inf |-> FALSE, n |-> 2]}
ReconnectDelaySamples == {1}
CommandTimeoutSamples == {1}

OptionSamples ==
  [autoConnect : BOOLEAN,
   onError : {"graceful", "throw"},
   maxReconnectAttempts : MaxAttemptsSamples,
   reconnectDelay : ReconnectDelaySamples,
   commandTimeout : CommandTimeoutSamples]

VARIABLES
  options,    \* this.options, fixed by the constructor
  client,     \* the fields of the ResilientCacheClient instance
  handles,    \* the driver handles created so far, by id
  calls,      \* per caller: the API call it has in progress
  outcome,    \* what the step just taken handed back to a caller, if anything
  notified,   \* the observer callbacks the step just taken made, in order
  now,        \* Date.now()
  store,      \* the server's keyspace: what each key holds and when it expires
  mock,       \* the fields of a MockCacheClient instance
  job,        \* per caller: the data operation it has in progress
  history,    \* the data operations completed so far, in order of completion
  provider    \* CacheProvider: its static field and the calls made of it

\* The server, the mock, the data operations and the provider; the actions
\* of the connection state machine leave them alone.
dvars == <<store, mock, job, history, provider>>

vars == <<options, client, handles, calls, outcome, notified, now, dvars>>

\* ------------------------------------------------------- call arguments
\* A key is described by what validateKey looks at: its length and whether
\* it contains "\n" or "\r".  A ttl is undefined or a number given in halves
\* (twice = 3 is 1.5), so that Number.isInteger has something to reject.
\* A number argument is a token; NaN and Infinity are the non-finite ones.
GoodKey == [len |-> 1, ctl |-> ""]
KeySamples ==
  {GoodKey,
   [len |-> 0, ctl |-> ""],
   [len |-> MAX_KEY_LENGTH, ctl |-> ""],
   [len |-> MAX_KEY_LENGTH + 1, ctl |-> ""],
   [len |-> 3, ctl |-> "LF"],
   [len |-> 3, ctl |-> "CR"]}

NoTtl == [given |-> FALSE, twice |-> 0]
Ttl(twice) == [given |-> TRUE, twice |-> twice]
TtlSamples == {NoTtl, Ttl(2), Ttl(0), Ttl(0 - 2), Ttl(3)}

NumberSamples == {"undefined", "1", "7", "NaN", "Infinity"}
FiniteNumbers == {"0", "1", "7"}

Commands ==
  {"ping", "get", "set", "remove", "removeByPrefix", "removeAll", "increment",
   "decrement", "decrementOrInit", "exists", "ttl", "setIfNotExists",
   "getMany", "setMany", "expire"}

\* validateKey: the error it throws, or "ok".
validateKey(key) ==
  IF key.len = 0 THEN "TypeError: Cache key must be a non-empty string"
  ELSE IF key.len > MAX_KEY_LENGTH THEN "Error: Cache key exceeds maximum length"
  ELSE IF key.ctl = "LF" \/ key.ctl = "CR"
       THEN "Error: Cache key cannot contain newline characters"
  ELSE "ok"

validateTtl_Mutant(ttl) ==
  IF (~ttl.given) \/ ttl.twice % 2 # 0 \/ ttl.twice < 0
  THEN "TypeError: ttlSeconds must be a positive integer"
  ELSE "ok"

\* validateTtl: Number.isInteger(ttlSeconds) and ttlSeconds > 0, else TypeError.
validateTtl(ttl) ==
  IF (~ttl.given) \/ ttl.twice % 2 # 0 \/ ttl.twice <= 0
  THEN "TypeError: ttlSeconds must be a positive integer"
  ELSE "ok"

\* validateNumber: Number.isFinite(value), else TypeError.
validateNumber(value) ==
  IF value \in FiniteNumbers THEN "ok" ELSE "TypeError: must be a finite number"

ValidationErrors ==
  {"TypeError: Cache key must be a non-empty string",
   "Error: Cache key exceeds maximum length",
   "Error: Cache key cannot contain newline characters",
   "TypeError: ttlSeconds must be a positive integer",
   "TypeError: must be a finite number"}

\* `if (ttlSeconds !== undefined) this.validateTtl(ttlSeconds)`
validateOptionalTtl(ttl) == IF ttl.given THEN validateTtl(ttl) ELSE "ok"

\* amount: number = 1
AmountOf(a) == IF a.amount = "undefined" THEN "1" ELSE a.amount

FirstError(checks) ==
  IF \A i \in 1..Len(checks) : checks[i] = "ok" THEN "ok"
  ELSE checks[CHOOSE i \in 1..Len(checks) :
                /\ checks[i] # "ok"
                /\ \A j \in 1..(i - 1) : checks[j] = "ok"]

\* What each public method checks before it calls executeCommand, in order.
Validate(op, a) ==
  CASE op \in {"ping", "removeByPrefix", "removeAll"} -> "ok"
    [] op \in {"get", "remove", "exists", "ttl"} -> validateKey(a.key)
    [] op \in {"set", "setIfNotExists"} ->
         FirstError(<<validateKey(a.key), validateOptionalTtl(a.ttl)>>)
    [] op \in {"increment", "decrement"} ->
         FirstError(<<validateKey(a.key), validateNumber(AmountOf(a))>>)
    [] op = "decrementOrInit" ->
         FirstError(<<validateKey(a.key), validateNumber(a.def), validateTtl(a.ttl)>>)
    [] op = "getMany" -> validateKey(a.key)
    [] op = "setMany" ->
         FirstError(<<validateKey(a.key), validateOptionalTtl(a.ttl)>>)
    [] op = "expire" -> FirstError(<<validateKey(a.key), validateTtl(a.ttl)>>)

\* A value handed back to the caller: a sequence of tokens (one token for a
\* scalar, "[]" followed by the elements for an array).
Scalar(v) == <<v>>
Nulls(n) == <<"[]">> \o [i \in 1..n |-> "null"]
RealResult == Scalar("result")

DefaultValue_Mutant(op, a) ==
  CASE op = "get" -> Scalar(IF a.def = "undefined" THEN "null" ELSE a.def)
    [] op \in {"increment", "decrement"} ->
         Scalar(IF a.def = "undefined" THEN "0" ELSE a.def)
    [] op = "decrementOrInit" -> Scalar(a.def)
    [] op \in {"removeByPrefix", "ttl"} -> Scalar("-1")
    [] op = "getMany" -> Nulls(a.n)
    [] OTHER -> Scalar("false")

\* The defaultValue each public method passes to executeCommand.
DefaultValue(op, a) ==
  CASE op = "get" -> Scalar(IF a.def = "undefined" THEN "null" ELSE a.def)
    [] op \in {"increment", "decrement"} ->
         Scalar(IF a.def = "undefined" THEN "0" ELSE a.def)
    [] op = "decrementOrInit" -> Scalar(a.def)
    [] op = "removeByPrefix" -> Scalar("-1")
    [] op = "ttl" -> Scalar("-2")
    [] op = "getMany" -> Nulls(a.n)
    [] OTHER -> Scalar("false")

\* getMany([]) and setMany([]) return before anything else is looked at.
EmptyBatch(op, a) == op \in {"getMany", "setMany"} /\ a.n = 0
EmptyBatchResult(op) == IF op = "getMany" THEN Nulls(0) ELSE Scalar("true")

\* ------------------------------------------------- the client and the driver
\* The client's fields are those of the class, except lastConnectedAt, which
\* is written together with lastSuccessAt in doConnect and read only by
\* getStatus.
\* A world w = [cl, hs, log] is the client's fields together with the driver
\* handles and the observer callbacks made so far in the step; the operators
\* below are the synchronous pieces of the class, each mapping a world to
\* the world it leaves.
Handles == 1..MaxHandles

UnusedHandle == [status |-> "unused", listeners |-> FALSE, conn |-> "none", err |-> NoErr]

InitClient ==
  [state |-> "disconnected", lastError |-> NoErr,
   lastSuccessAt |-> NoTime, lastFailedAt |-> NoTime, reconnectAttempts |-> 0,
   cooldownEndsAt |-> NoTime, redis |-> NoHandle, connectPromise |-> NoHandle,
   stateChangeCallbacks |-> <<>>, errorCallbacks |-> <<>>]

World == [cl |-> client, hs |-> handles, log |-> <<>>]

\* getStatus(): the snapshot of the live fields.
getStatus(cl) ==
  [state |-> cl.state, lastError |-> cl.lastError, lastSuccessAt |-> cl.lastSuccessAt,
   lastFailedAt |-> cl.lastFailedAt, reconnectAttempts |-> cl.reconnectAttempts,
   cooldownEndsAt |-> cl.cooldownEndsAt]

\* A round of calls of the onStateChange observers with the snapshot taken
\* by setState, and a round of calls of the onError observers; `called` are
\* the observers the round called, in order.
StateChangeCall(status) ==
  [to |-> "onStateChange", status |-> status, error |-> NoErr, called |-> <<>>]
ErrorCall(error) ==
  [to |-> "onError", status |-> getStatus(InitClient), error |-> error, called |-> <<>>]

\* An observer is what it does when called: it returns or it throws.
ObserverKinds == {"returns", "throws"}

RECURSIVE UpToFirstThrow(_)
UpToFirstThrow(callbacks) ==
  IF callbacks = <<>> THEN <<>>
  ELSE IF Head(callbacks) = "throws" THEN <<Head(callbacks)>>
  ELSE <<Head(callbacks)>> \o UpToFirstThrow(Tail(callbacks))

notifyAll_Mutant(callbacks, call) == [call EXCEPT !.called = UpToFirstThrow(callbacks)]

\* for (const callback of callbacks) { try { callback(x) } catch {} }: every
\* observer is called, whatever the ones before it did, and nothing is
\* thrown to the code around the loop.
notifyAll(callbacks, call) == [call EXCEPT !.called = callbacks]

setState(w, newState) ==
  IF w.cl.state = newState THEN w
  ELSE LET cl1 == [w.cl EXCEPT !.state = newState]
       IN [w EXCEPT !.cl = cl1,
                    !.log = Append(@, notifyAll(cl1.stateChangeCallbacks,
                                                StateChangeCall(getStatus(cl1))))]

clearCooldown(w) == [w EXCEPT !.cl.cooldownEndsAt = NoTime]

enterCooldown(w) ==
  [setState(w, "cooldown") EXCEPT !.cl.cooldownEndsAt = now + options.reconnectDelay]

AttemptsExhausted_Mutant(attempts) ==
  (~options.maxReconnectAttempts.inf) /\ attempts > options.maxReconnectAttempts.n

\* this.reconnectAttempts >= this.options.maxReconnectAttempts
AttemptsExhausted(attempts) ==
  (~options.maxReconnectAttempts.inf) /\ attempts >= options.maxReconnectAttempts.n

handleConnectionFailure(w, error) ==
  LET w1 == [w EXCEPT !.cl.lastError = error,
                      !.cl.lastFailedAt = now,
                      !.cl.reconnectAttempts = @ + 1,
                      !.log = Append(@, notifyAll(w.cl.errorCallbacks, ErrorCall(error)))]
  IN IF AttemptsExhausted(w1.cl.reconnectAttempts)
     THEN setState(w1, "failed")
     ELSE enterCooldown(w1)

handleCommandError_Mutant(w, error) == handleConnectionFailure(w, error)

handleCommandError(w, error) ==
  IF isConnectionError(error) THEN handleConnectionFailure(w, error) ELSE w

\* this.redis?.status === 'ready'
RedisReady(w) == w.cl.redis # NoHandle /\ w.hs[w.cl.redis].status = "ready"

canExecuteCommands(w) ==
  IF w.cl.state = "cooldown" THEN FALSE
  ELSE w.cl.state = "connected" /\ RedisReady(w)

\* redis.disconnect() as the driver sees it: a handle that is connecting or
\* ready starts closing; its close and end events follow at a later turn.
DriverDisconnect(hs, h) ==
  IF hs[h].status \in {"connecting", "ready"}
  THEN [hs EXCEPT ![h].status = "closing"]
  ELSE hs

HandlesUsed(hs) == Cardinality({h \in Handles : hs[h].status # "unused"})
CanCreateHandle(hs) == HandlesUsed(hs) < MaxHandles
NewHandle(hs) == HandlesUsed(hs) + 1

\* doConnect() up to `await this.redis.connect()`: clear the cooldown, enter
\* connecting, create the handle, register the listeners, start the connect.
doConnectStart(w) ==
  LET w1 == setState(clearCooldown(w), "connecting")
      h == NewHandle(w.hs)
  IN [w1 EXCEPT !.cl.redis = h,
                !.hs[h] = [status |-> "connecting", listeners |-> TRUE,
                           conn |-> "pending", err |-> NoErr]]

connectStart_Mutant(w) ==
  IF w.cl.state = "connected"
  THEN [w |-> w, wait |-> "returned", att |-> NoHandle, owner |-> FALSE, started |-> 0]
  ELSE IF w.cl.connectPromise # NoHandle /\ ~CanCreateHandle(w.hs)
  THEN [w |-> w, wait |-> "attempt", att |-> w.cl.connectPromise, owner |-> FALSE,
        started |-> 0]
  ELSE LET w1 == doConnectStart(w)
       IN [w |-> [w1 EXCEPT !.cl.connectPromise = w1.cl.redis], wait |-> "attempt",
           att |-> w1.cl.redis, owner |-> TRUE, started |-> 1]

\* connect() up to its first suspension.  The result tells what the caller
\* now waits for: nothing ("returned"), or the attempt `att`, either as the
\* caller that created connectPromise (owner) or as one that joined it.
connectStart(w) ==
  IF w.cl.state = "connected"
  THEN [w |-> w, wait |-> "returned", att |-> NoHandle, owner |-> FALSE, started |-> 0]
  ELSE IF w.cl.connectPromise # NoHandle
  THEN [w |-> w, wait |-> "attempt", att |-> w.cl.connectPromise, owner |-> FALSE,
        started |-> 0]
  ELSE LET w1 == doConnectStart(w)
       IN [w |-> [w1 EXCEPT !.cl.connectPromise = w1.cl.redis], wait |-> "attempt",
           att |-> w1.cl.redis, owner |-> TRUE, started |-> 1]

\* Does connectStart(w) call doConnect (and so need a fresh handle)?
connectCreates(w) == w.cl.state # "connected" /\ w.cl.connectPromise = NoHandle

\* attemptReconnect() up to `await this.connect()`.
attemptReconnectStart(w) ==
  LET w1 == setState(w, "reconnecting")
      w2 == IF w1.cl.redis # NoHandle
            THEN [w1 EXCEPT !.hs = DriverDisconnect(w1.hs, w1.cl.redis),
                            !.cl.redis = NoHandle]
            ELSE w1
  IN connectStart(w2)

CooldownExpired_Mutant(cl) == cl.cooldownEndsAt # NoTime

\* `this.cooldownEndsAt && Date.now() >= this.cooldownEndsAt.getTime()`
CooldownExpired(cl) == cl.cooldownEndsAt # NoTime /\ now >= cl.cooldownEndsAt

ensureConnectedStart_Mutant(w) ==
  LET no == [w |-> w, wait |-> "false", att |-> NoHandle, owner |-> FALSE,
             started |-> 0, via |-> "none"]
  IN IF canExecuteCommands(w) THEN [no EXCEPT !.wait = "true"]
     ELSE IF ~options.autoConnect THEN no
     ELSE IF w.cl.state = "cooldown"
          THEN IF CooldownExpired(w.cl)
               THEN attemptReconnectStart(w) @@ [via |-> "attemptReconnect"]
               ELSE no
     ELSE IF w.cl.state = "failed"
          THEN attemptReconnectStart([w EXCEPT !.cl.reconnectAttempts = 0])
               @@ [via |-> "attemptReconnect"]
     ELSE IF w.cl.state = "disconnected" \/ w.cl.connectPromise # NoHandle
          THEN connectStart(w) @@ [via |-> "ensureConnected"]
     ELSE no

\* ensureConnected() up to its first suspension: "true"/"false" when it
\* returns without suspending, "attempt" when it awaits connect().
ensureConnectedStart(w) ==
  LET no == [w |-> w, wait |-> "false", att |-> NoHandle, owner |-> FALSE,
             started |-> 0, via |-> "none"]
  IN IF canExecuteCommands(w) THEN [no EXCEPT !.wait = "true"]
     ELSE IF ~options.autoConnect THEN no
     ELSE IF w.cl.state = "cooldown"
          THEN IF CooldownExpired(w.cl)
               THEN attemptReconnectStart(w) @@ [via |-> "attemptReconnect"]
               ELSE no
     ELSE IF w.cl.state = "failed"
          THEN attemptReconnectStart([w EXCEPT !.cl.reconnectAttempts = 0])
               @@ [via |-> "attemptReconnect"]
     ELSE IF w.cl.state = "disconnected"
          THEN connectStart(w) @@ [via |-> "ensureConnected"]
     ELSE no

\* Does ensureConnectedStart(w) reach doConnect?
ensureConnectedCreates(w) ==
  /\ ~canExecuteCommands(w)
  /\ options.autoConnect
  /\ \/ w.cl.state = "cooldown" /\ CooldownExpired(w.cl)
     \/ w.cl.state \in {"failed", "disconnected"}
  /\ w.cl.connectPromise = NoHandle

\* disconnect(): all of it runs synchronously.
disconnect(w) ==
  LET w1 == clearCooldown(w)
      h == w1.cl.redis
      w2 == IF h # NoHandle
            THEN [w1 EXCEPT !.hs = [DriverDisconnect(w1.hs, h) EXCEPT ![h].listeners = FALSE],
                            !.cl.redis = NoHandle]
            ELSE w1
  IN setState(w2, "disconnected")

\* ------------------------------------------------------------------- calls
\* calls[x] is the API call caller x has in progress.
\*   pc        idle | await (suspended on a connect attempt) | gate_true,
\*             gate_false (ensureConnected has resolved, executeCommand not yet
\*             resumed) | racing (Promise.race pending)
\*   onError   `options?.onError ?? this.options.onError`
\*   def       the defaultValue handed to executeCommand
\*   att/owner the connect attempt awaited, and whether this call created
\*             connectPromise (and so clears it in connect()'s finally)
\*   h         the handle the command was sent on
\*   nconn/nreq  driver connects started / driver requests sent by this call
\*   inv       what held when the call was invoked: the state, whether the
\*             cooldown window was open or had elapsed, the connect attempt
\*             in flight (NoHandle when none), whether the arguments were
\*             well-formed (valid) and whether they pass what the method is
\*             documented to check (checked), whether the batch was empty,
\*             and the caller's default and batch size
NoInv == [state |-> "", open |-> FALSE, expired |-> FALSE, inflight |-> NoHandle,
          valid |-> TRUE, checked |-> TRUE, empty |-> FALSE, def |-> "", n |-> 0]

IdleCall ==
  [pc |-> "idle", op |-> "", onError |-> "", def |-> <<>>,
   via |-> "none", att |-> NoHandle, owner |-> FALSE, h |-> NoHandle,
   nconn |-> 0, nreq |-> 0, inv |-> NoInv, timer |-> FALSE]

\* outcome is a call's settlement on its way to the caller: the value
\* returned or the error thrown, how the call ended (how), the underlying
\* error (fault), and with them the call's record and the status snapshot
\* taken before the settling step (pre).  The caller takes it in the next
\* step (Deliver), before anything else runs.
Return(val, how) ==
  [kind |-> "return", val |-> val, err |-> NoErr, cause |-> NoErr,
   operation |-> "", timeoutMs |-> NoTime, how |-> how, fault |-> NoErr]

Throw(err, cause, operation, timeoutMs, how, fault) ==
  [kind |-> "throw", val |-> <<>>, err |-> err, cause |-> cause,
   operation |-> operation, timeoutMs |-> timeoutMs, how |-> how, fault |-> fault]

NoOutcome == [kind |-> "none"]

Settle(x, call, out) ==
  out @@ [caller |-> x, op |-> call.op, onError |-> call.onError, def |-> call.def,
          inv |-> call.inv, nconn |-> call.nconn, nreq |-> call.nreq, att |-> call.att,
          pre |-> getStatus(client)]

CallOptionSamples == {"undefined", "graceful", "throw"}

\* const onError = options?.onError ?? this.options.onError
onErrorOf(opt) == IF opt = "undefined" THEN options.onError ELSE opt

Unavailable_Mutant(call, cl) == Return(call.def, "short-circuit")

\* executeCommand when ensureConnected() resolved false.
Unavailable(call, cl) ==
  IF call.onError = "throw"
  THEN Throw("CacheUnavailableError", cl.lastError, call.op, NoTime, "short-circuit", NoErr)
  ELSE Return(call.def, "short-circuit")

Failed_Mutant(call, error) ==
  LET how == IF error = TimeoutError THEN "timeout" ELSE "error"
  IN IF call.onError = "throw"
     THEN Throw("CacheUnavailableError", error, call.op, NoTime, how, error)
     ELSE [Return(call.def, how) EXCEPT !.fault = error]

\* executeCommand's catch block, after handleCommandError.
Failed(call, error) ==
  LET how == IF error = TimeoutError THEN "timeout" ELSE "error"
  IN IF call.onError = "throw"
     THEN IF error = TimeoutError
          THEN Throw("CacheTimeoutError", NoErr, call.op, options.commandTimeout, how, error)
          ELSE Throw("CacheUnavailableError", error, call.op, NoTime, how, error)
     ELSE [Return(call.def, how) EXCEPT !.fault = error]

\* createTimeoutWithCleanup + command(): the request goes out on this.redis
\* and the guard timer is armed.
Launch(call, cl) ==
  [call EXCEPT !.pc = "racing", !.h = cl.redis, !.nreq = @ + 1, !.timer = TRUE]

cleanup_Mutant(call) == call

\* cleanup: () => clearTimeout(timeoutId)
cleanup(call) == [call EXCEPT !.timer = FALSE]

\* executeCommand's finally block, the last thing a call past the gate does:
\* what is left of the call is its guard timer, if cleanup left one.
Finished(call) == [IdleCall EXCEPT !.timer = cleanup(call).timer]

\* A continuation is queued (a promise has settled and its reaction has not
\* run yet).  Timers, driver I/O and the clock are macrotasks: they run only
\* when no continuation is queued.
Settled(att) == handles[att].conn \in {"ok", "err"}

CanResume(call) ==
  /\ call.pc = "await"
  /\ Settled(call.att)
  /\ (call.owner \/ client.connectPromise # call.att)

QueuedContinuation ==
  \/ outcome # NoOutcome
  \/ \E x \in Callers : calls[x].pc \in {"gate_true", "gate_false"} \/ CanResume(calls[x])
  \/ \E x \in Callers : calls[x].pc = "racing"
                          /\ handles[calls[x].h].status \in {"connecting", "end"}
  \/ \E h \in Handles : handles[h].conn \in {"drvOk", "drvErr"}

Quiescent == ~QueuedContinuation

\* No settlement is waiting for its caller.
Delivered == outcome = NoOutcome

\* Arguments a caller may pass to op: the well-formed ones and, one argument
\* at a time, the malformed ones.
BaseArgs == [key |-> GoodKey, ttl |-> NoTtl, amount |-> "undefined", def |-> "undefined", n |-> 1]

TakesTtl(op) == op \in {"set", "setIfNotExists", "setMany", "decrementOrInit", "expire"}

ArgSamples(op) ==
  LET base == [BaseArgs EXCEPT !.ttl = IF op \in {"decrementOrInit", "expire"} THEN Ttl(2) ELSE NoTtl,
                               !.def = IF op = "decrementOrInit" THEN "7" ELSE "undefined"]
      keys == IF op \in {"ping", "removeByPrefix", "removeAll"} THEN {GoodKey} ELSE KeySamples
      ttls == IF TakesTtl(op) THEN TtlSamples ELSE {base.ttl}
      amounts == IF op \in {"increment", "decrement"} THEN NumberSamples ELSE {"undefined"}
      defs == CASE op = "get" -> {"undefined", "d"}
                [] op \in {"increment", "decrement"} -> {"undefined", "7", "NaN"}
                [] op = "decrementOrInit" -> {"7", "NaN", "Infinity"}
                [] OTHER -> {"undefined"}
      ns == IF op \in {"getMany", "setMany"} THEN {0, 1, 2} ELSE {1}
  IN {[base EXCEPT !.key = k] : k \in keys} \cup {[base EXCEPT !.ttl = t] : t \in ttls}
     \cup {[base EXCEPT !.amount = m] : m \in amounts}
     \cup {[base EXCEPT !.def = d] : d \in defs}
     \cup {[base EXCEPT !.n = n] : n \in ns}
     \cup (IF op = "setMany" THEN {[base EXCEPT !.n = 0, !.ttl = Ttl(0)]} ELSE {})

\* The arguments meet the documented input contract of op: every key is
\* non-empty, at most 512 characters and free of newlines; a ttl, where one
\* is given or required, is a positive integer; amount and defaultValue of
\* the counter operations are finite.
WellFormed(op, a) ==
  /\ op \in Commands \ {"ping", "removeByPrefix", "removeAll"} =>
       a.key.len > 0 /\ a.key.len <= 512 /\ a.key.ctl = ""
  /\ op \in {"set", "setIfNotExists", "setMany"} /\ a.ttl.given =>
       a.ttl.twice > 0 /\ a.ttl.twice % 2 = 0
  /\ op \in {"decrementOrInit", "expire"} =>
       a.ttl.given /\ a.ttl.twice > 0 /\ a.ttl.twice % 2 = 0
  /\ op \in {"increment", "decrement"} =>
       a.amount \notin {"NaN", "Infinity"} /\ a.def \notin {"NaN", "Infinity"}
  /\ op = "decrementOrInit" => a.def \notin {"NaN", "Infinity"}

\* The arguments pass the checks each method is documented to make: as
\* WellFormed, except that the defaultValue of increment and decrement (the
\* value returned when the cache is unavailable) is not checked, and an empty
\* batch is accepted whatever comes with it.
Checked(op, a) ==
  \/ EmptyBatch(op, a)
  \/ WellFormed(op, [a EXCEPT !.def = IF op \in {"increment", "decrement"}
                                       THEN "undefined" ELSE @])

Snapshot(op, a) ==
  [state |-> client.state,
   open |-> client.state = "cooldown" /\ client.cooldownEndsAt # NoTime
            /\ now < client.cooldownEndsAt,
   expired |-> client.state = "cooldown" /\ CooldownExpired(client),
   inflight |-> IF client.connectPromise # NoHandle /\ ~Settled(client.connectPromise)
                THEN client.connectPromise ELSE NoHandle,
   valid |-> WellFormed(op, a), checked |-> Checked(op, a), empty |-> EmptyBatch(op, a), def |-> a.def, n |-> a.n]

\* ----------------------------------------------------------------- actions
\* A public command method, from its call to its first suspension.
Invoke(x, op, a, opt) ==
  /\ Delivered
  /\ calls[x].pc = "idle"
  /\ LET w == World
         call == [IdleCall EXCEPT !.op = op, !.onError = onErrorOf(opt),
                                  !.def = DefaultValue(op, a), !.inv = Snapshot(op, a)]
         ec == ensureConnectedStart(w)
     IN IF EmptyBatch(op, a)
        THEN /\ outcome' = Settle(x, call, Return(EmptyBatchResult(op), "empty"))
             /\ notified' = <<>>
             /\ UNCHANGED <<client, handles, calls>>
        ELSE IF Validate(op, a) # "ok"
        THEN /\ outcome' = Settle(x, call, Throw(Validate(op, a), NoErr, "", NoTime,
                                                 "validation", NoErr))
             /\ notified' = <<>>
             /\ UNCHANGED <<client, handles, calls>>
        ELSE IF canExecuteCommands(w)
        THEN /\ calls' = [calls EXCEPT ![x] = Launch(call, client)]
             /\ outcome' = NoOutcome
             /\ notified' = <<>>
             /\ UNCHANGED <<client, handles>>
        ELSE /\ ensureConnectedCreates(w) => CanCreateHandle(handles)
             /\ client' = ec.w.cl
             /\ handles' = ec.w.hs
             /\ notified' = ec.w.log
             /\ outcome' = NoOutcome
             /\ calls' = [calls EXCEPT ![x] =
                    IF ec.wait = "attempt"
                    THEN [call EXCEPT !.pc = "await", !.att = ec.att, !.owner = ec.owner,
                                      !.via = ec.via, !.nconn = ec.started]
                    ELSE [call EXCEPT !.pc = "gate_false"]]
  /\ UNCHANGED <<dvars, options, now>>

\* connect() called by the application.
Connect(x) ==
  /\ Delivered
  /\ calls[x].pc = "idle"
  /\ connectCreates(World) => CanCreateHandle(handles)
  /\ LET r == connectStart(World)
         call == [IdleCall EXCEPT !.op = "connect", !.inv = Snapshot("connect", BaseArgs)]
     IN /\ client' = r.w.cl
        /\ handles' = r.w.hs
        /\ notified' = r.w.log
        /\ IF r.wait = "attempt"
           THEN /\ calls' = [calls EXCEPT ![x] =
                      [call EXCEPT !.pc = "await", !.att = r.att, !.owner = r.owner,
                                   !.via = "connect", !.nconn = r.started]]
                /\ outcome' = NoOutcome
           ELSE /\ outcome' = Settle(x, call, Return(Scalar("undefined"), "connect"))
                /\ UNCHANGED calls
  /\ UNCHANGED <<dvars, options, now>>

\* disconnect() called by the application.
Disconnect ==
  /\ Delivered
  /\ client' = disconnect(World).cl
  /\ handles' = disconnect(World).hs
  /\ notified' = disconnect(World).log
  /\ outcome' = NoOutcome
  /\ UNCHANGED <<dvars, options, calls, now>>

\* The continuation of doConnect() after `await this.redis.connect()`.
DoConnectResume(h) ==
  /\ Delivered
  /\ handles[h].conn \in {"drvOk", "drvErr"}
  /\ LET w == World
         ok == [setState(w, "connected") EXCEPT !.cl.lastSuccessAt = now,
                                                !.cl.reconnectAttempts = 0]
         ko == handleConnectionFailure(w, handles[h].err)
         w1 == IF handles[h].conn = "drvOk" THEN ok ELSE ko
     IN /\ client' = w1.cl
        /\ handles' = [w1.hs EXCEPT ![h].conn = IF handles[h].conn = "drvOk" THEN "ok" ELSE "err"]
        /\ notified' = w1.log
  /\ outcome' = NoOutcome
  /\ UNCHANGED <<dvars, options, calls, now>>

\* A call suspended on a connect attempt resumes once doConnect() has
\* settled: connect()'s finally (for the call that created connectPromise),
\* then attemptReconnect()/ensureConnected() up to their return.
AwaitResume(x) ==
  /\ Delivered
  /\ CanResume(calls[x])
  /\ LET call == calls[x]
         ok == handles[call.att].conn = "ok"
         cl1 == IF call.owner THEN [client EXCEPT !.connectPromise = NoHandle] ELSE client
         w1 == [cl |-> cl1, hs |-> handles, log |-> <<>>]
     IN /\ client' = cl1
        /\ notified' = <<>>
        /\ IF call.via = "connect"
           THEN /\ calls' = [calls EXCEPT ![x] = IdleCall]
                /\ outcome' = Settle(x, call,
                      IF ok THEN Return(Scalar("undefined"), "connect")
                      ELSE Throw(handles[call.att].err, NoErr, "", NoTime,
                                 "connect", handles[call.att].err))
           ELSE /\ calls' = [calls EXCEPT ![x].pc = IF ok /\ canExecuteCommands(w1)
                                                    THEN "gate_true" ELSE "gate_false"]
                /\ outcome' = NoOutcome
  /\ UNCHANGED <<dvars, options, handles, now>>

\* executeCommand() resumes after `await this.ensureConnected()`.
GateResume(x) ==
  /\ Delivered
  /\ calls[x].pc \in {"gate_true", "gate_false"}
  /\ LET call == calls[x]
     IN IF call.pc = "gate_false"
        THEN /\ calls' = [calls EXCEPT ![x] = IdleCall]
             /\ outcome' = Settle(x, call, Unavailable(call, client))
        ELSE IF client.redis = NoHandle
        THEN /\ calls' = [calls EXCEPT ![x] = Finished([call EXCEPT !.timer = TRUE])]
             /\ outcome' = Settle(x, call, Failed(call, NullDeref))
        ELSE /\ calls' = [calls EXCEPT ![x] = Launch(call, client)]
             /\ outcome' = NoOutcome
  /\ notified' = <<>>
  /\ UNCHANGED <<dvars, options, client, handles, now>>

\* The caller's continuation takes the settlement.
Deliver ==
  /\ outcome # NoOutcome
  /\ outcome' = NoOutcome
  /\ notified' = <<>>
  /\ UNCHANGED <<dvars, options, client, handles, calls, now>>

\* ------------------------------------------------------------ environment
\* The driver (ioredis, configured with lazyConnect and retryStrategy:
\* () => null) is not part of the sources.  What is modelled of it:
\*   - redis.connect() resolves when the handle becomes ready and rejects
\*     with 'Connection is closed.' when the connection closes first;
\*   - a connection that fails or is lost emits 'error' (unless it was closed
\*     by redis.disconnect()), then 'close', then 'end', back to back, before
\*     any promise reaction runs; its commands in flight are rejected with
\*     'Connection is closed.';
\*   - a command sent on a handle that is still connecting is rejected at
\*     once (enableOfflineQueue: false);
\*   - a command on a ready handle is answered, or fails with any error, at
\*     any later turn of the event loop.
\* The driver resolves redis.connect(): the handle is ready.
DriverConnectOk(h) ==
  /\ Quiescent
  /\ handles[h].status = "connecting"
  /\ handles[h].conn = "pending"
  /\ handles' = [handles EXCEPT ![h].status = "ready", ![h].conn = "drvOk"]
  /\ outcome' = NoOutcome
  /\ notified' = <<>>
  /\ UNCHANGED <<dvars, options, client, calls, now>>

\* No further failure is injected once reconnectAttempts is at the cap.
FailureAllowed == client.reconnectAttempts < AttemptsCap

EventErrors == {"ECONNREFUSED"}

\* boundErrorHandler
errorHandler(w, error) == handleConnectionFailure(w, error)

\* boundCloseHandler
closeHandler(w) ==
  IF w.cl.state = "connected" THEN handleConnectionFailure(w, CloseEventError) ELSE w

\* boundEndHandler
endHandler(w) ==
  IF w.cl.state # "disconnected" THEN setState(w, "disconnected") ELSE w

\* The connection of a handle goes down: it failed to open, was lost, or
\* was closed by redis.disconnect().  The handlers still registered on the
\* handle run in the order error (when error is not NoErr), close, end.
DriverDown(h, error) ==
  /\ Quiescent
  /\ handles[h].status \in {"connecting", "ready", "closing"}
  /\ IF handles[h].status = "closing" THEN error = NoErr ELSE FailureAllowed
  /\ LET hs1 == [handles EXCEPT ![h].status = "end",
                                ![h].conn = IF @ = "pending" THEN "drvErr" ELSE @,
                                ![h].err = IF handles[h].conn = "pending" THEN ClosedError ELSE @]
         w0 == [cl |-> client, hs |-> hs1, log |-> <<>>]
         w1 == IF error # NoErr THEN errorHandler(w0, error) ELSE w0
         w3 == endHandler(closeHandler(w1))
         w == IF handles[h].listeners THEN w3 ELSE w0
     IN /\ client' = w.cl
        /\ handles' = w.hs
        /\ notified' = w.log
  /\ outcome' = NoOutcome
  /\ UNCHANGED <<dvars, options, calls, now>>

\* The driver settles a command: Promise.race is won by command().
ReplyErrors == connectionErrorCodes \cup {WrongTypeReply}

DriverReply(x, reply) ==
  /\ calls[x].pc = "racing"
  /\ LET call == calls[x]
         st == handles[call.h].status
     IN /\ CASE st = "ready" -> Quiescent /\ reply \in {"ok"} \cup ReplyErrors
              [] st = "connecting" -> Delivered /\ reply = NotWriteable
              [] st = "end" -> Delivered /\ reply = ClosedError
              [] OTHER -> FALSE
        /\ isConnectionError(reply) => FailureAllowed \/ st = "end"
        /\ IF reply = "ok"
           THEN /\ client' = [client EXCEPT !.lastSuccessAt = now]
                /\ notified' = <<>>
                /\ outcome' = Settle(x, call, Return(RealResult, "success"))
           ELSE /\ client' = handleCommandError(World, reply).cl
                /\ notified' = handleCommandError(World, reply).log
                /\ outcome' = Settle(x, call, Failed(call, reply))
  /\ calls' = [calls EXCEPT ![x] = Finished(calls[x])]
  /\ UNCHANGED <<dvars, options, handles, now>>

\* What the guard leaves of a call when it wins the race: the timer has
\* fired, the finally block has run, and the request is still in flight at
\* the driver, on the handle h it was sent on.
Abandoned(call) == [Finished([call EXCEPT !.timer = FALSE]) EXCEPT !.h = call.h]

\* A request in flight whose call has returned by its guard.
InFlightAbandoned(x) == calls[x].pc = "idle" /\ calls[x].h # NoHandle

TimerFire_Mutant(x) ==
  /\ Quiescent
  /\ calls[x].pc = "racing"
  /\ handles[calls[x].h].status # "ready"
  /\ client' = handleCommandError(World, TimeoutError).cl
  /\ notified' = handleCommandError(World, TimeoutError).log
  /\ outcome' = Settle(x, calls[x], Failed(calls[x], TimeoutError))
  /\ calls' = [calls EXCEPT ![x] = Abandoned(calls[x])]
  /\ UNCHANGED <<dvars, options, handles, now>>

\* The guard timer fires first: Promise.race is won by timeout.promise.
\* How long commandTimeout is against the driver's answer is the
\* environment's choice: the timer may fire at any turn of the event loop
\* after the request went out.
TimerFire(x) ==
  /\ Quiescent
  /\ calls[x].pc = "racing"
  /\ client' = handleCommandError(World, TimeoutError).cl
  /\ notified' = handleCommandError(World, TimeoutError).log
  /\ outcome' = Settle(x, calls[x], Failed(calls[x], TimeoutError))
  /\ calls' = [calls EXCEPT ![x] = Abandoned(calls[x])]
  /\ UNCHANGED <<dvars, options, handles, now>>

LateReply_Mutant(x, reply) ==
  /\ Quiescent
  /\ InFlightAbandoned(x)
  /\ calls' = [calls EXCEPT ![x].h = NoHandle]
  /\ client' = [client EXCEPT !.lastSuccessAt = now]
  /\ outcome' = NoOutcome
  /\ notified' = <<>>
  /\ UNCHANGED <<dvars, options, handles, now>>

\* The driver settles a request after the guard has won the race: the
\* promise of command() is settled, and its only reaction is that of the
\* race, which is settled already.  Neither the try nor the catch block of
\* executeCommand runs again.
LateReply(x, reply) ==
  /\ Quiescent
  /\ InFlightAbandoned(x)
  /\ calls' = [calls EXCEPT ![x].h = NoHandle]
  /\ outcome' = NoOutcome
  /\ notified' = <<>>
  /\ UNCHANGED <<dvars, options, client, handles, now>>

Tick ==
  /\ Quiescent
  /\ now < MaxTime
  /\ now' = now + 1
  /\ outcome' = NoOutcome
  /\ notified' = <<>>
  /\ UNCHANGED <<dvars, options, client, handles, calls>>

\* ------------------------------------------------------------ specification
\* Shared by both specifications: continuations, the driver, the clock.
Continue ==
  \/ Deliver
  \/ \E h \in Handles : DoConnectResume(h)
  \/ \E x \in Callers : AwaitResume(x)
  \/ \E x \in Callers : GateResume(x)

Environment(replies) ==
  \/ \E h \in Handles : DriverConnectOk(h)
  \/ \E h \in Handles, e \in {NoErr} \cup EventErrors : DriverDown(h, e)
  \/ \E x \in Callers, r \in replies \cup {NotWriteable, ClosedError} : DriverReply(x, r)
  \/ \E x \in Callers : TimerFire(x)
  \/ \E x \in Callers, r \in replies : LateReply(x, r)
  \/ Tick

\* ------------------------------------------------------------- stored data
\* A key of the keyspace is the sequence of its characters: <<"p", ":", "x">>
\* is 'p:x'.
DataKeys ==
  {<<"k">>, <<"p", ":", "x">>, <<"p", ":", "y">>, <<"p", "2", ":", "x">>,
   <<"p">>, <<"q", ":", "x">>}

\* A JavaScript value is its type and its text: the characters of a string,
\* the JSON text of anything else.
Str(s) == [t |-> "string", s |-> s]
Num(s) == [t |-> "number", s |-> s]
Bool(s) == [t |-> "boolean", s |-> s]
Null == [t |-> "null", s |-> "null"]
Obj(s) == [t |-> "object", s |-> s]
Undefined == [t |-> "undefined", s |-> "undefined"]

PlainObject == Obj("{\"a\":1}")
PollutedObject == Obj("{\"__proto__\":1,\"a\":1}")

\* JSON.parse(text): the value, or SyntaxError for a text that is not JSON.
SyntaxError == [t |-> "SyntaxError", s |-> ""]

JSONparse(text) ==
  CASE text = "123" -> Num("123")
    [] text = "true" -> Bool("true")
    [] text = "null" -> Null
    [] text = "\"hello\"" -> Str("hello")
    [] text = PlainObject.s -> PlainObject
    [] text = PollutedObject.s -> PollutedObject
    [] OTHER -> SyntaxError

\* JSON.stringify(value), for a value that is not a string.
JSONstringify(value) == value.s

\* serialize: typeof value === 'string' ? value : JSON.stringify(value)
serialize(value) == IF value.t = "string" THEN value.s ELSE JSONstringify(value)

\* sanitizeParsedValue: the keys __proto__, constructor and prototype are
\* dropped from an object.
sanitizeParsedValue(value) == IF value = PollutedObject THEN PlainObject ELSE value

\* The try/catch of get's callback: the parsed and sanitized value, or the
\* raw string when the text is not JSON.
deserialize(text) ==
  IF JSONparse(text) = SyntaxError THEN Str(text)
  ELSE sanitizeParsedValue(JSONparse(text))

\* What a key holds at the server: a string and, if it has one, the time it
\* expires at.
Absent == [has |-> FALSE, text |-> "", exp |-> NoTime]
Holds(text, exp) == [has |-> TRUE, text |-> text, exp |-> exp]

\* An item of MockCacheClient.store: { value, expiresAt? }.
NoItem == [has |-> FALSE, value |-> Undefined, expiresAt |-> NoTime]
Item(value, expiresAt) == [has |-> TRUE, value |-> value, expiresAt |-> expiresAt]

\* new MockCacheClient(): simulateFailure false, onError graceful.
InitMock ==
  [store |-> [k \in DataKeys |-> NoItem], simulateFailure |-> FALSE,
   defaultOnError |-> "graceful"]

IdleJob == [pc |-> "idle"]

\* private static client: ICacheClient | null = null
NoClient == "null"
InitProvider == [client |-> NoClient, calls |-> <<>>]

\* An empty server, a fresh mock, no data operation in progress.
InitData ==
  /\ store = [k \in DataKeys |-> Absent]
  /\ mock = InitMock
  /\ job = [x \in Callers |-> IdleJob]
  /\ history = <<>>
  /\ provider = InitProvider

\* The client after construction, with options drawn from opts.
InitConnection(opts) ==
  /\ options \in opts
  /\ client = InitClient
  /\ handles = [h \in Handles |-> UnusedHandle]
  /\ calls = [x \in Callers |-> IdleCall]
  /\ outcome = NoOutcome
  /\ notified = <<>>
  /\ now = 0

InitWith(opts) == InitData /\ InitConnection(opts)

\* Spec: two concurrent callers issuing connect() and get(key).
ConcurrentArgs == {<<"get", BaseArgs>>}
ConcurrentReplies == {"ok", "ECONNRESET"}

Init == InitWith({o \in OptionSamples : o.autoConnect /\ o.onError = "graceful"})

Next ==
  \/ \E x \in Callers, c \in ConcurrentArgs : Invoke(x, c[1], c[2], "undefined")
  \/ \E x \in Callers : Connect(x)
  \/ Disconnect
  \/ Continue
  \/ Environment(ConcurrentReplies)

Spec == Init /\ [][Next]_vars

\* SpecCatalogue: one caller, every command with every well-formed argument
\* sample and call option; no disconnect().
CatalogueReplies == {"ok", "ECONNRESET", WrongTypeReply}

InitCatalogue == InitWith({o \in OptionSamples : ~o.maxReconnectAttempts.inf})

NextCatalogue ==
  \/ \E op \in Commands, opt \in CallOptionSamples :
        \E a \in {s \in ArgSamples(op) : WellFormed(op, s)} : Invoke("a", op, a, opt)
  \/ Connect("a")
  \/ Continue
  \/ Environment(CatalogueReplies)

SpecCatalogue == InitCatalogue /\ [][NextCatalogue]_vars

\* SpecArguments: every command with every argument sample that is
\* malformed or an empty batch, in every connection state; get(key) and
\* caller b's connect() are there to move the client through its states.
\* The driver answers every command.
ArgumentSamples(op) ==
  {s \in ArgSamples(op) : op = "get" \/ ~WellFormed(op, s) \/ EmptyBatch(op, s)}

InitArguments ==
  InitWith({o \in OptionSamples : o.autoConnect /\ ~o.maxReconnectAttempts.inf
                                  /\ o.onError = "graceful"})

NextArguments ==
  \/ \E op \in Commands, opt \in CallOptionSamples :
        \E a \in ArgumentSamples(op) : Invoke("a", op, a, opt)
  \/ Connect("b")
  \/ Continue
  \/ Environment({"ok"})

SpecArguments == InitArguments /\ [][NextArguments]_vars

\* SpecErrors: one caller, get(key), every driver error, disconnect().
InitErrors == InitWith(OptionSamples)

NextErrors ==
  \/ \E opt \in CallOptionSamples : Invoke("a", "get", BaseArgs, opt)
  \/ Connect("a")
  \/ Disconnect
  \/ Continue
  \/ Environment({"ok"} \cup ReplyErrors)

SpecErrors == InitErrors /\ [][NextErrors]_vars

\* ------------------------------------------------------------------ claims
\* A command has just settled.
CommandSettled == outcome.kind # "none" /\ outcome.op \in Commands

\* The graceful sentinel of each operation as documented: d is the default
\* the caller supplied ("undefined" when none), n the number of keys.
Sentinel(op, d, n) ==
  CASE op = "get" -> <<IF d = "undefined" THEN "null" ELSE d>>
    [] op \in {"set", "remove", "removeAll", "exists", "setIfNotExists", "expire",
               "setMany", "ping"} -> <<"false">>
    [] op = "removeByPrefix" -> <<"-1">>
    [] op = "ttl" -> <<"-2">>
    [] op \in {"increment", "decrement", "decrementOrInit"} ->
         <<IF d = "undefined" THEN "0" ELSE d>>
    [] op = "getMany" -> <<"[]">> \o [i \in 1..n |-> "null"]

ReturnsSentinel ==
  outcome.kind = "return"
  /\ outcome.val = Sentinel(outcome.op, outcome.inv.def, outcome.inv.n)

\* The settled command made no driver call, left the state cooldown and
\* ended with the sentinel (graceful) or CacheUnavailableError (throw).
ShortCircuitedInCooldown ==
  /\ outcome.nconn = 0
  /\ outcome.nreq = 0
  /\ client.state = "cooldown"
  /\ IF outcome.onError = "graceful" THEN ReturnsSentinel
     ELSE outcome.kind = "throw" /\ outcome.err = "CacheUnavailableError"

\* C1 as stated: every command that passes validation and is invoked in
\* cooldown before cooldownEndsAt makes no driver call, leaves the state
\* cooldown and returns the sentinel or throws CacheUnavailableError.  Refuted
\* by setMany([]) (returns true) and, in throw mode, getMany([]) (returns []).
C1_AsStated ==
  CommandSettled /\ outcome.inv.checked /\ outcome.inv.open => ShortCircuitedInCooldown

\* C1 amended: the same, for every command except a batch command given an
\* empty batch.
C1_CircuitOpen ==
  CommandSettled /\ outcome.inv.checked /\ outcome.inv.open /\ ~outcome.inv.empty =>
    ShortCircuitedInCooldown

C1_Witness ==
  /\ CommandSettled /\ outcome.inv.checked /\ outcome.inv.open /\ ~outcome.inv.empty
  /\ outcome.op = "setMany" /\ outcome.onError = "throw"

\* A command caller x has in progress.
CommandInProgress(x) == calls[x].pc # "idle" /\ calls[x].op \in Commands

\* The driver connects in flight.
PendingConnects == {h \in Handles : handles[h].conn = "pending"}

\* C2 as stated: with autoConnect enabled, once the cooldown window has
\* elapsed exactly one driver connect attempt is started however many
\* commands are issued before it settles: the command that finds the state
\* cooldown with the window elapsed starts it, a command that finds the state
\* connecting or reconnecting starts none, and two attempts are never in
\* flight together.
C2_OneReconnectAttempt ==
  /\ Cardinality(PendingConnects) <= 1
  /\ \A x \in Callers :
       CommandInProgress(x) /\ options.autoConnect =>
         /\ calls[x].inv.expired => calls[x].nconn = 1
         /\ calls[x].inv.state \in {"connecting", "reconnecting"} => calls[x].nconn = 0

\* A command that passed validation has settled after being invoked in state
\* connecting or reconnecting.
SettledWhileConnecting ==
  /\ CommandSettled /\ outcome.inv.checked
  /\ outcome.inv.state \in {"connecting", "reconnecting"}

\* It was turned away at once: no connect attempt, no driver call, the
\* sentinel (graceful) or CacheUnavailableError (throw).
TurnedAway ==
  /\ outcome.nconn = 0
  /\ outcome.nreq = 0
  /\ outcome.how = "short-circuit"
  /\ IF outcome.onError = "graceful" THEN ReturnsSentinel
     ELSE outcome.kind = "throw" /\ outcome.err = "CacheUnavailableError"

\* Such a command, while in progress, waits for nothing but its own
\* continuation.
NeverWaitsWhileConnecting ==
  \A x \in Callers :
    CommandInProgress(x) /\ calls[x].inv.state \in {"connecting", "reconnecting"} =>
      calls[x].pc = "gate_false" /\ calls[x].nconn = 0 /\ calls[x].nreq = 0

\* C3 as stated: a command invoked while the state is connecting or
\* reconnecting gets the sentinel or CacheUnavailableError immediately, without
\* waiting for the attempt in flight, starting a connect or calling the
\* driver.  Refuted by setMany([]) (returns true) and, in throw mode,
\* getMany([]) (returns []).
C3_AsStated ==
  NeverWaitsWhileConnecting /\ (SettledWhileConnecting => TurnedAway)

\* C3 amended: the same, for every command except a batch command given an
\* empty batch.
C3_NoWaitWhileConnecting ==
  NeverWaitsWhileConnecting /\ (SettledWhileConnecting /\ ~outcome.inv.empty => TurnedAway)

C3_Witness ==
  /\ SettledWhileConnecting /\ ~outcome.inv.empty
  /\ outcome.inv.state = "reconnecting" /\ outcome.onError = "throw"

\* C4: at most one driver connect is in flight at any time, and a connect()
\* invoked while an attempt is in flight starts none of its own, awaits
\* that attempt and settles as it does: resolved when it succeeded, rejected
\* with its error when it failed.
C4_ConnectDeduplicated ==
  /\ Cardinality(PendingConnects) <= 1
  /\ \A x \in Callers :
       calls[x].op = "connect" /\ calls[x].inv.inflight # NoHandle =>
         calls[x].pc = "await" /\ calls[x].nconn = 0 /\ calls[x].att = calls[x].inv.inflight
  /\ outcome.kind # "none" /\ outcome.op = "connect" /\ outcome.inv.inflight # NoHandle =>
       /\ outcome.nconn = 0
       /\ outcome.att = outcome.inv.inflight
       /\ outcome.kind = "return" <=> handles[outcome.att].conn = "ok"
       /\ outcome.kind = "throw" => outcome.err = handles[outcome.att].err

\* A connect() that joined an attempt in flight is rejected with the error
\* that attempt failed with.
C4_Witness ==
  /\ outcome.kind = "throw" /\ outcome.op = "connect" /\ outcome.inv.inflight # NoHandle
  /\ outcome.nconn = 0 /\ outcome.err = ClosedError
  /\ handles[outcome.att].conn = "err"

\* The connection-class errors: the listed codes, or a message containing
\* 'Connection is closed'.
ConnectionClassFaults ==
  {"ECONNREFUSED", "ETIMEDOUT", "ENOTCONN", "ECONNRESET", "EPIPE", "EHOSTUNREACH",
   "ENETUNREACH", "Connection is closed."}

\* C5: a command executed in state connected and ended by the Timeout Guard
\* records the failure (lastError, lastFailedAt) and moves the state to
\* cooldown, or to failed when the attempts are exhausted.
C5_TimeoutOpensCircuit ==
  CommandSettled /\ outcome.how = "timeout" /\ outcome.pre.state = "connected" =>
    /\ client.state \in {"cooldown", "failed"}
    /\ client.lastError = outcome.fault
    /\ client.lastFailedAt = now

\* A command executed in state connected has failed with a connection-class
\* error.
ConnectionFaultWhileConnected ==
  /\ CommandSettled /\ outcome.how = "error"
  /\ outcome.fault \in ConnectionClassFaults
  /\ outcome.pre.state = "connected"

\* C6: the first connection-class error of a command executed in state
\* connected moves the state to cooldown with cooldownEndsAt = now +
\* reconnectDelay, or to failed when the attempts budget is exhausted, and
\* sets lastError and lastFailedAt; the call made its one request and no
\* other.
C6_FirstFailureOpensCircuit ==
  ConnectionFaultWhileConnected =>
    /\ outcome.nreq = 1
    /\ client.lastError = outcome.fault
    /\ client.lastFailedAt = now
    /\ client.reconnectAttempts = outcome.pre.reconnectAttempts + 1
    /\ IF (~options.maxReconnectAttempts.inf)
          /\ client.reconnectAttempts >= options.maxReconnectAttempts.n
       THEN client.state = "failed"
       ELSE client.state = "cooldown"
            /\ client.cooldownEndsAt = now + options.reconnectDelay

C6_Witness ==
  /\ ConnectionFaultWhileConnected
  /\ outcome.fault = "EPIPE"
  /\ now > 0
  /\ client.state = "cooldown"

\* The settled command ended in one of the connectivity failures: it was
\* short-circuited (a failed connect attempt included), timed out, or failed
\* with a connection-class error.
ConnectivityFailure ==
  /\ CommandSettled
  /\ \/ outcome.how \in {"short-circuit", "timeout"}
     \/ outcome.how = "error" /\ outcome.fault \in ConnectionClassFaults

\* C7: in graceful mode a command that ends in a connectivity failure does
\* not throw; it returns exactly the sentinel of its operation.
C7_GracefulSentinel ==
  ConnectivityFailure /\ outcome.onError = "graceful" => ReturnsSentinel

C7_Witness ==
  /\ ConnectivityFailure /\ outcome.onError = "graceful"
  /\ outcome.how = "timeout" /\ outcome.op = "getMany" /\ outcome.inv.n = 2
  /\ outcome.val = <<"[]", "null", "null">>

\* C8: in throw mode a command that is short-circuited or fails with a
\* connection-class error throws CacheUnavailableError carrying the command's
\* name and the underlying error as its cause; one ended by the Timeout Guard
\* throws CacheTimeoutError carrying the command's name and the configured
\* timeout.
C8_ThrowModeErrors ==
  ConnectivityFailure /\ outcome.onError = "throw" =>
    /\ outcome.kind = "throw"
    /\ outcome.operation = outcome.op
    /\ CASE outcome.how = "short-circuit" ->
              outcome.err = "CacheUnavailableError" /\ outcome.cause = outcome.pre.lastError
         [] outcome.how = "error" ->
              outcome.err = "CacheUnavailableError" /\ outcome.cause = outcome.fault
         [] outcome.how = "timeout" ->
              outcome.err = "CacheTimeoutError"
              /\ outcome.timeoutMs = options.commandTimeout

\* A per-call override to throw on a graceful client: the command timed out.
C8_Witness ==
  /\ ConnectivityFailure /\ outcome.onError = "throw" /\ options.onError = "graceful"
  /\ outcome.how = "timeout" /\ outcome.err = "CacheTimeoutError"
  /\ outcome.operation = "decrementOrInit"

\* A command ends with the validation error, having started no connect and
\* made no driver call, and the connection status is what it was.
RaisedBeforeAnyIO ==
  /\ outcome.kind = "throw"
  /\ outcome.how = "validation"
  /\ outcome.nconn = 0
  /\ outcome.nreq = 0
  /\ getStatus(client) = outcome.pre

\* C9 as stated: a call whose key is empty, longer than 512 characters or
\* contains a newline, whose ttlSeconds is not a positive integer, or whose
\* amount or defaultValue is not finite, raises the validation fault in both
\* modes and every state, before any connect attempt or driver call, leaving
\* the connection status unchanged.  Refuted by setMany([], 0) (returns true)
\* and by increment(key, 1, NaN) (defaultValue is not checked).
C9_AsStated ==
  /\ \A x \in Callers : CommandInProgress(x) => calls[x].inv.valid
  /\ CommandSettled /\ ~outcome.inv.valid => RaisedBeforeAnyIO

\* C9 amended: the same, where the defaultValue in question is that of
\* decrementOrInit and the batch of a batch command is not empty.
C9_ValidationAlwaysRaised ==
  /\ \A x \in Callers : CommandInProgress(x) => calls[x].inv.checked
  /\ CommandSettled /\ ~outcome.inv.checked => RaisedBeforeAnyIO

\* In graceful mode, while a reconnect started by another call is in flight.
C9_Witness ==
  /\ CommandSettled /\ ~outcome.inv.checked /\ RaisedBeforeAnyIO
  /\ outcome.onError = "graceful"
  /\ outcome.pre.state = "reconnecting"
  /\ outcome.op = "expire"

\* C10: a driver error of a command that is neither a timeout nor a
\* connection-class error (a wrong-type reply) reaches the caller unchanged in
\* both modes: not replaced by the sentinel, not wrapped into
\* CacheUnavailableError.
C10_SemanticFaultUnchanged ==
  CommandSettled /\ outcome.how = "error" /\ outcome.fault = WrongTypeReply =>
    outcome.kind = "throw" /\ outcome.err = WrongTypeReply

\* A command has failed with a driver error that is not connection-class.
SemanticFault ==
  /\ CommandSettled /\ outcome.how = "error"
  /\ outcome.fault \notin ConnectionClassFaults

\* C11: a command that fails with an error that is not connection-class
\* leaves state, reconnectAttempts, cooldownEndsAt, lastError and
\* lastFailedAt as they were, and no observer is called.
C11_SemanticFaultLeavesState ==
  SemanticFault =>
    /\ client.state = outcome.pre.state
    /\ client.reconnectAttempts = outcome.pre.reconnectAttempts
    /\ client.cooldownEndsAt = outcome.pre.cooldownEndsAt
    /\ client.lastError = outcome.pre.lastError
    /\ client.lastFailedAt = outcome.pre.lastFailedAt
    /\ notified = <<>>

\* A wrong-type reply on a connection that had failed and recovered before.
C11_Witness ==
  /\ SemanticFault /\ outcome.fault = WrongTypeReply
  /\ client.state = "connected"
  /\ client.lastError = "ECONNREFUSED" /\ client.lastFailedAt # NoTime

\* The states the client passed through in a step that began in state s0
\* and made the observer calls log: setState calls the observers at every
\* change of state.
StatesPassed(s0, log) ==
  LET changes == SelectSeq(log, LAMBDA c : c.to = "onStateChange")
  IN <<s0>> \o [i \in 1..Len(changes) |-> changes[i].status.state]

TransitionsOf(s0, log) ==
  LET seen == StatesPassed(s0, log)
  IN {<<seen[i], seen[i + 1]>> : i \in 1..(Len(seen) - 1)}

\* The edges of the transition table.
TransitionTable ==
  {<<"disconnected", "connecting">>, <<"connecting", "connected">>,
   <<"connecting", "cooldown">>, <<"connecting", "failed">>,
   <<"connected", "cooldown">>, <<"connected", "failed">>,
   <<"cooldown", "reconnecting">>, <<"reconnecting", "connected">>,
   <<"reconnecting", "cooldown">>, <<"reconnecting", "failed">>,
   <<"failed", "reconnecting">>}
  \cup {<<st, "disconnected">> : st \in ConnectionStates \ {"disconnected"}}

\* C12: every change of the connection state, in every step, follows an edge
\* of the transition table (a change to disconnected is accepted from any
\* state, whatever caused it).
C12_TransitionTable ==
  [][TransitionsOf(client.state, notified') \subseteq TransitionTable]_vars

\* The connect attempt on handle h settles in this step, after disconnect()
\* was called on it (disconnect() is what removes the listeners of a handle),
\* the state is still disconnected, and no connect() or command has asked
\* for a connection since.
SettlesAfterDisconnect(h) ==
  /\ handles[h].status # "unused" /\ ~handles[h].listeners
  /\ handles[h].conn \in {"drvOk", "drvErr"}
  /\ handles'[h].conn \in {"ok", "err"}
  /\ client.state = "disconnected"
  /\ \A x \in Callers : ~(calls[x].inv.inflight = h /\ calls[x].inv.state = "disconnected")

\* C13: disconnect() leaves the state disconnected with cooldownEndsAt
\* cleared, and the settling of a connect attempt started before it, success
\* or failure, does not move the state away from disconnected.
C13_DisconnectHolds ==
  [][/\ Disconnect => client'.state = "disconnected" /\ client'.cooldownEndsAt = NoTime
     /\ \A h \in Handles : SettlesAfterDisconnect(h) => client'.state = "disconnected"]_vars

\* The snapshots the observers of onStateChange received in the last step.
SnapshotsDelivered ==
  {notified[i].status : i \in {j \in 1..Len(notified) : notified[j].to = "onStateChange"}}

CooldownFieldConsistent(status) ==
  status.cooldownEndsAt # NoTime <=> status.state = "cooldown"

\* C14: cooldownEndsAt is set if and only if the state is cooldown, in the
\* status getStatus() returns between any two steps and in every snapshot
\* delivered to an onStateChange observer.
C14_CooldownEndsAtIffCooldown ==
  /\ CooldownFieldConsistent(getStatus(client))
  /\ \A status \in SnapshotsDelivered : CooldownFieldConsistent(status)

\* C15: whenever the state is connected, reconnectAttempts is 0, in the
\* status getStatus() returns and in the snapshot delivered to observers for
\* the transition to connected.
C15_AttemptsResetOnConnect ==
  /\ client.state = "connected" => client.reconnectAttempts = 0
  /\ \A status \in SnapshotsDelivered :
       status.state = "connected" => status.reconnectAttempts = 0

\* The failure of a connect attempt is handled in this step: doConnect()
\* resumes in its catch block.
AttemptFailureHandled ==
  \E h \in Handles : handles[h].conn = "drvErr" /\ handles'[h].conn = "err"

\* C16: reconnectAttempts goes up by exactly one when the failure of a
\* connect attempt is handled, and in no other step: not at the error event
\* of that attempt, not when a command fails, not at an error or close event
\* of an established connection.
C16_OneIncrementPerFailedAttempt ==
  [][/\ AttemptFailureHandled => client'.reconnectAttempts = client.reconnectAttempts + 1
     /\ client'.reconnectAttempts > client.reconnectAttempts => AttemptFailureHandled]_vars

\* Caller x issues a command in this step, in state failed, and the command
\* passes validation and goes to the execution gate.
CommandArrivesInFailed(x) ==
  /\ client.state = "failed"
  /\ calls[x].pc = "idle" /\ calls'[x].pc # "idle"
  /\ calls'[x].op \in Commands

\* The application calls connect() in this step.
ConnectRequested ==
  \E x \in Callers : calls[x].pc = "idle" /\ calls'[x].pc # "idle" /\ calls'[x].op = "connect"

\* C17: the state failed is left only when a command arrives (or the
\* application calls connect() or disconnect()); with autoConnect the command
\* that arrives first resets reconnectAttempts to 0, moves the state to
\* reconnecting and starts exactly one connect attempt.
C17_FailedUntilNextCommand ==
  [][/\ client.state = "failed" /\ client'.state # "failed" =>
          \/ Disconnect
          \/ ConnectRequested
          \/ \E x \in Callers : CommandArrivesInFailed(x)
     /\ \A x \in Callers :
          CommandArrivesInFailed(x) /\ options.autoConnect =>
            /\ notified' # <<>>
            /\ notified'[1].to = "onStateChange"
            /\ notified'[1].status.state = "reconnecting"
            /\ notified'[1].status.reconnectAttempts = 0
            /\ calls'[x].nconn = 1]_vars

\* C18: when the failure of a connect attempt is handled, the state becomes
\* failed if reconnectAttempts, this failure counted, has reached
\* maxReconnectAttempts, and otherwise cooldown with cooldownEndsAt = now +
\* reconnectDelay; with maxReconnectAttempts unbounded the state is never
\* failed.
C18_FailedOrCooldown ==
  /\ [][AttemptFailureHandled =>
          IF (~options.maxReconnectAttempts.inf)
             /\ client'.reconnectAttempts >= options.maxReconnectAttempts.n
          THEN client'.state = "failed"
          ELSE client'.state = "cooldown"
               /\ client'.cooldownEndsAt = now + options.reconnectDelay]_vars
  /\ [](options.maxReconnectAttempts.inf => client.state # "failed")

\* The rejection of a connect attempt has just been handled and, the budget
\* of 2 being spent, the state is failed.
C18_Witness ==
  /\ outcome = NoOutcome
  /\ notified # <<>> /\ notified[1].to = "onError" /\ notified[1].error = ClosedError
  /\ client.state = "failed" /\ client.reconnectAttempts = 2
  /\ \E h \in Handles : handles[h].conn = "err" /\ client.connectPromise = h

\* Nothing is in progress: no call, no settlement on its way, no connect
\* attempt to be settled, and no handle that can still deliver an event to
\* the client.
NothingOutstanding ==
  /\ \A x \in Callers : calls[x].pc = "idle"
  /\ outcome = NoOutcome
  /\ \A h \in Handles :
       /\ handles[h].conn \notin {"pending", "drvOk", "drvErr"}
       /\ handles[h].listeners => handles[h].status \notin {"connecting", "ready", "closing"}

\* With autoConnect enabled and nothing outstanding, a command issued now
\* is short-circuited and changes nothing, and the passing of time does not
\* help: every later command meets the same state.
ShortCircuitsForever ==
  /\ options.autoConnect
  /\ NothingOutstanding
  /\ client.state # "cooldown"
  /\ ~canExecuteCommands(World)
  /\ ensureConnectedStart(World).wait = "false"
  /\ ensureConnectedStart(World).w = World

InitGuard ==
  InitWith({o \in OptionSamples : o.autoConnect /\ ~o.maxReconnectAttempts.inf
                                  /\ o.onError = "graceful"})

NextGuard ==
  \/ \E opt \in CallOptionSamples : Invoke("a", "get", BaseArgs, opt)
  \/ Disconnect
  \/ Continue
  \/ Environment({"ok"})

GuardFairness ==
  /\ SF_vars(Deliver)
  /\ \A h \in Handles : SF_vars(DoConnectResume(h))
  /\ SF_vars(AwaitResume("a"))
  /\ SF_vars(GateResume("a"))
  /\ SF_vars(DriverReply("a", NotWriteable))
  /\ SF_vars(DriverReply("a", ClosedError))
  /\ SF_vars(TimerFire("a"))

SpecGuard == InitGuard /\ [][NextGuard]_vars /\ GuardFairness

\* The command of caller x has passed the execution gate: its request is
\* out and it awaits Promise.race([command(), timeout.promise]).
PastTheGate(x) == calls[x].pc = "racing"

ReturnsFromRace(x) == PastTheGate(x) /\ ~PastTheGate(x)'

\* C20: a slow or dead server never stalls the caller.  A command that has
\* passed the execution gate leaves the race only by returning to its own
\* caller, with the operation's outcome (its result or its failure) or with
\* a timeout outcome; the firing of the guard timer returns it with the
\* timeout outcome whatever the driver does; and every such command does
\* return, even if the driver never answers.
C20_NeverStalls ==
  /\ [][\A x \in Callers :
          /\ ReturnsFromRace(x) =>
               /\ outcome'.kind \in {"return", "throw"}
               /\ outcome'.caller = x
               /\ outcome'.how \in {"success", "error", "timeout"}
               /\ calls'[x].pc = "idle"
          /\ TimerFire(x) => outcome'.caller = x /\ outcome'.how = "timeout"]_vars
  /\ \A x \in Callers : PastTheGate(x) ~> ~PastTheGate(x)

\* The guard timer has returned a command to its caller while the handle
\* is still ready: the driver never answered.
C20_Witness ==
  /\ outcome # NoOutcome
  /\ outcome.how = "timeout"
  /\ outcome.nreq = 1
  /\ client.redis # NoHandle
  /\ handles[client.redis].status = "ready"

\* A command of caller x starts: the call is in progress after the step.
CommandStarts(x) ==
  calls[x].pc = "idle" /\ calls'[x].pc # "idle" /\ calls'[x].op \in Commands

\* C21: with autoConnect disabled, a command issued while the state is not
\* connected starts no connect attempt, makes no driver call and leaves the
\* client's fields and the driver handles as they are; it is short-circuited
\* with its sentinel (get('k','d') = 'd', set = false, ping = false,
\* removeByPrefix = -1), in throw mode with CacheUnavailableError, and the
\* state afterwards is the state it was invoked in.
C21_NoAutoConnectNoAttempt ==
  /\ [][\A x \in Callers :
          CommandStarts(x) /\ ~options.autoConnect /\ client.state # "connected" =>
            /\ client' = client
            /\ handles' = handles
            /\ calls'[x].pc = "gate_false"]_vars
  /\ [](CommandSettled /\ ~options.autoConnect /\ outcome.inv.state # "connected" =>
          /\ outcome.nconn = 0
          /\ outcome.nreq = 0
          /\ client.state = outcome.inv.state
          /\ getStatus(client) = outcome.pre
          /\ outcome.inv.checked /\ ~outcome.inv.empty =>
               /\ outcome.how = "short-circuit"
               /\ IF outcome.onError = "graceful" THEN ReturnsSentinel
                  ELSE outcome.kind = "throw" /\ outcome.err = "CacheUnavailableError")

\* get('k','d') on a graceful client that was never connected, autoConnect
\* disabled: 'd' is returned and the state is still disconnected.
C21_Witness ==
  /\ CommandSettled /\ ~options.autoConnect /\ options.onError = "graceful"
  /\ outcome.op = "get" /\ outcome.inv.def = "d"
  /\ outcome.val = Scalar("d")
  /\ client.state = "disconnected" /\ client.lastSuccessAt = NoTime
  /\ client.redis = NoHandle

\* ---------------------------------------------------------- data operations
\* The data operations are followed at the level of what they read and write.
\* Time is sampled at whole seconds of Date.now(), and the server's clock is
\* the client's: a ttl of T seconds is T ticks of `now`.  executeCommand is
\* one step here: the environment chooses how it ends (how), within what
\* the execution gate allows, and Executed gives what it returns and what it
\* does to the client.  The client is used with autoConnect disabled, so
\* that a command never connects by itself and ensureConnected() is `false`
\* whenever the gate is closed.
Seconds(ttl) == ttl.twice \div 2

\* `ttlSeconds ? a : b`
Truthy(ttl) == ttl.given /\ ttl.twice # 0

\* The shape of a data key, as validateKey looks at it.
KeyShape(key) == [len |-> Len(key), ctl |-> ""]

\* The server deletes a key when its expiry time is reached.
PresentAt(entry, time) == entry.has /\ (entry.exp = NoTime \/ time < entry.exp)
Present(entry) == PresentAt(entry, now)

\* The callback of get, given what the key holds at the server at the time
\* GET is answered: the default for a null reply, else the deserialized
\* string.
getResult(entry, time, defaultValue) ==
  IF PresentAt(entry, time) THEN deserialize(entry.text) ELSE defaultValue

getCallback(key, defaultValue) == getResult(store[key], now, defaultValue)

\* The callback of set: SET key serialized [EX ttlSeconds].
setCallback(key, value, ttl) ==
  [store EXCEPT ![key] = Holds(serialize(value),
                               IF Truthy(ttl) THEN now + Seconds(ttl) ELSE NoTime)]

CommandFaults == {"ECONNRESET", WrongTypeReply}

\* How executeCommand may end in world w, and with which error.
Endings(w) ==
  IF canExecuteCommands(w)
  THEN {[how |-> "success", fault |-> NoErr], [how |-> "timeout", fault |-> TimeoutError]}
       \cup {[how |-> "error", fault |-> e] :
               e \in {f \in CommandFaults : isConnectionError(f) => FailureAllowed}}
  ELSE {[how |-> "short-circuit", fault |-> NoErr]}

\* executeCommand(op, def, options, command) ending as `end`, where value is
\* what command() resolves with: the world afterwards and what is returned
\* or thrown.
Executed(w, op, def, opt, end, value) ==
  LET call == [IdleCall EXCEPT !.op = op, !.onError = onErrorOf(opt), !.def = def]
  IN CASE end.how = "short-circuit" -> [w |-> w, out |-> Unavailable(call, w.cl)]
       [] end.how = "success" ->
            [w |-> [w EXCEPT !.cl.lastSuccessAt = now], out |-> Return(value, "success")]
       [] OTHER -> [w |-> handleCommandError(w, end.fault), out |-> Failed(call, end.fault)]

\* A data operation of caller x ends: it is entered in the history with
\* what it returned or threw.
Finish(x, j, out) ==
  /\ job' = [job EXCEPT ![x] = IdleJob]
  /\ history' = Append(history, [j EXCEPT !.pc = "done"] @@ [caller |-> x, out |-> out])

\* The server answers at a turn of the event loop; a short-circuited
\* command resumes its caller as a promise reaction.
Turn(end) == IF end.how = "short-circuit" THEN Delivered ELSE Quiescent

\* ------------------------------------------------------------------ getOrSet
\* job[x] of a getOrSet: its arguments (isValid: whether a validator was
\* supplied; onError: the onError of its options, which nothing reads), what the read returned (cached), what the validator said
\* (verdict), what the factory returned (value), how the read and the store
\* ended ("" when there was none), whether the key was present
\* at the server when the read was answered, and the number of times the
\* validator and the factory were invoked and a store was attempted.
FactoryError == "Error: Factory failed"
ValidatorError == "Error: Validator failed"

GetOrSetJob(key, ttl, isValid, opt) ==
  [pc |-> "reading", op |-> "getOrSet", key |-> key, ttl |-> ttl, isValid |-> isValid,
   onError |-> opt,
   cached |-> Undefined, value |-> Undefined, read |-> "", stored |-> "",
   verdict |-> "", present |-> FALSE, nValidator |-> 0, nFactory |-> 0, nStore |-> 0]

\* getOrSet(key, factory, ttlSeconds, options) up to `await this.get(...)`.
GetOrSet(x, key, ttl, isValid, opt) ==
  /\ Delivered
  /\ job[x].pc = "idle"
  /\ calls[x].pc = "idle"
  /\ Len(history) < MaxOps
  /\ LET err == FirstError(<<validateKey(KeyShape(key)), validateOptionalTtl(ttl)>>)
         j == GetOrSetJob(key, ttl, isValid, opt)
     IN IF err # "ok"
        THEN Finish(x, j, Throw(err, NoErr, "", NoTime, "validation", NoErr))
        ELSE job' = [job EXCEPT ![x] = j] /\ UNCHANGED history
  /\ notified' = <<>>
  /\ UNCHANGED <<provider, options, client, handles, calls, outcome, now, store, mock>>

\* this.get(key, undefined, { onError: 'graceful' }) settles and getOrSet
\* goes on to its next await or returns the cached value.
GetOrSetRead(x, end) ==
  /\ job[x].pc = "reading"
  /\ end \in Endings(World)
  /\ Turn(end)
  /\ LET j == job[x]
         r == Executed(World, "get", Null, "graceful", end, getCallback(j.key, Null))
         j1 == [j EXCEPT !.read = end.how,
                         !.present = end.how = "success" /\ Present(store[j.key]),
                         !.cached = IF r.out.kind = "return" THEN r.out.val ELSE Undefined]
     IN /\ client' = r.w.cl
        /\ handles' = r.w.hs
        /\ notified' = r.w.log
        /\ IF r.out.kind = "throw" THEN Finish(x, j1, r.out)
           ELSE IF j1.cached # Null
           THEN IF j.isValid
                THEN /\ job' = [job EXCEPT ![x] = [j1 EXCEPT !.pc = "validating",
                                                            !.nValidator = @ + 1]]
                     /\ UNCHANGED history
                ELSE Finish(x, j1, Return(j1.cached, "hit"))
           ELSE /\ job' = [job EXCEPT ![x] = [j1 EXCEPT !.pc = "factory", !.nFactory = @ + 1]]
                /\ UNCHANGED history
  /\ UNCHANGED <<provider, options, calls, outcome, now, store, mock>>

\* options.isValid(cached) settles.
ValidatorVerdicts == {"valid", "stale", "throws"}

GetOrSetValidated_Mutant(x, verdict) ==
  /\ Delivered
  /\ job[x].pc = "validating"
  /\ LET j == [job[x] EXCEPT !.verdict = verdict]
     IN CASE verdict = "stale" -> Finish(x, j, Return(j.cached, "hit"))
          [] verdict = "valid" ->
               /\ job' = [job EXCEPT ![x] = [j EXCEPT !.pc = "factory", !.nFactory = @ + 1]]
               /\ UNCHANGED history
          [] verdict = "throws" ->
               Finish(x, j, Throw(ValidatorError, NoErr, "", NoTime, "validator", NoErr))
  /\ notified' = <<>>
  /\ UNCHANGED <<provider, options, client, handles, calls, outcome, now, store, mock>>

GetOrSetValidated(x, verdict) ==
  /\ Delivered
  /\ job[x].pc = "validating"
  /\ LET j == [job[x] EXCEPT !.verdict = verdict]
     IN CASE verdict = "valid" -> Finish(x, j, Return(j.cached, "hit"))
          [] verdict = "stale" ->
               /\ job' = [job EXCEPT ![x] = [j EXCEPT !.pc = "factory", !.nFactory = @ + 1]]
               /\ UNCHANGED history
          [] verdict = "throws" ->
               Finish(x, j, Throw(ValidatorError, NoErr, "", NoTime, "validator", NoErr))
  /\ notified' = <<>>
  /\ UNCHANGED <<provider, options, client, handles, calls, outcome, now, store, mock>>

\* factory() settles: with a value, and getOrSet goes on to
\* `await this.set(key, value, ttlSeconds, { onError: 'graceful' })`, or with
\* an exception, which leaves getOrSet as it is.
FactoryValues == {Str("hello"), Str("123"), Null, PlainObject}
FactoryThrows == [t |-> "throws", s |-> FactoryError]

GetOrSetFactory_Mutant(x, made) ==
  /\ Delivered
  /\ job[x].pc = "factory"
  /\ LET j == job[x]
     IN IF made = FactoryThrows
        THEN Finish(x, [j EXCEPT !.value = made],
                    Throw("CacheUnavailableError", FactoryError, "getOrSet", NoTime, "factory", NoErr))
        ELSE /\ job' = [job EXCEPT ![x] = [j EXCEPT !.pc = "storing", !.value = made,
                                                   !.nStore = @ + 1]]
             /\ UNCHANGED history
  /\ notified' = <<>>
  /\ UNCHANGED <<provider, options, client, handles, calls, outcome, now, store, mock>>

GetOrSetFactory(x, made) ==
  /\ Delivered
  /\ job[x].pc = "factory"
  /\ LET j == job[x]
     IN IF made = FactoryThrows
        THEN Finish(x, [j EXCEPT !.value = made], Throw(FactoryError, NoErr, "", NoTime, "factory", NoErr))
        ELSE /\ job' = [job EXCEPT ![x] = [j EXCEPT !.pc = "storing", !.value = made,
                                                   !.nStore = @ + 1]]
             /\ UNCHANGED history
  /\ notified' = <<>>
  /\ UNCHANGED <<provider, options, client, handles, calls, outcome, now, store, mock>>

\* this.set(...) settles and getOrSet returns the factory's value.
GetOrSetStored(x, end) ==
  /\ job[x].pc = "storing"
  /\ end \in Endings(World)
  /\ Turn(end)
  /\ LET j == job[x]
         r == Executed(World, "set", <<"false">>, "graceful", end, <<"true">>)
         j1 == [j EXCEPT !.stored = end.how]
     IN /\ client' = r.w.cl
        /\ handles' = r.w.hs
        /\ notified' = r.w.log
        /\ store' = IF end.how = "success" THEN setCallback(j.key, j.value, j.ttl) ELSE store
        /\ IF r.out.kind = "throw" THEN Finish(x, j1, r.out)
           ELSE Finish(x, j1, Return(j.value, "factory"))
  /\ UNCHANGED <<provider, options, calls, outcome, now, mock>>

\* SpecGetOrSet: caller a calls getOrSet('k', ...) on a client with
\* autoConnect disabled, caller b calls connect(); the driver connects and
\* fails; the key starts absent or holding a string.  The clock stands still.
TheKey == <<"k">>
CachedSamples == {Absent, Holds("hello", NoTime), Holds("null", NoTime), Holds("123", 1)}

InitGetOrSet ==
  /\ InitConnection({o \in OptionSamples : ~o.autoConnect /\ ~o.maxReconnectAttempts.inf})
  /\ store \in {[k \in DataKeys |-> IF k = TheKey THEN e ELSE Absent] : e \in CachedSamples}
  /\ mock = InitMock
  /\ job = [x \in Callers |-> IdleJob]
  /\ history = <<>>
  /\ provider = InitProvider

NextGetOrSet ==
  \/ \E ttl \in {NoTtl, Ttl(2), Ttl(0)}, isValid \in BOOLEAN, opt \in CallOptionSamples :
        GetOrSet("a", TheKey, ttl, isValid, opt)
  \/ \E end \in Endings(World) : GetOrSetRead("a", end)
  \/ \E verdict \in ValidatorVerdicts : GetOrSetValidated("a", verdict)
  \/ \E made \in FactoryValues \cup {FactoryThrows} : GetOrSetFactory("a", made)
  \/ \E end \in Endings(World) : GetOrSetStored("a", end)
  \/ Connect("b")
  \/ Deliver
  \/ \E h \in Handles : DoConnectResume(h)
  \/ AwaitResume("b")
  \/ \E h \in Handles : DriverConnectOk(h)
  \/ \E h \in Handles, e \in {NoErr} \cup EventErrors : DriverDown(h, e)

SpecGetOrSet == InitGetOrSet /\ [][NextGetOrSet]_vars

\* The data operation caller x has in progress ends in this step; Ended is
\* its entry in the history.
Ends(x) == job[x].pc # "idle" /\ job'[x].pc = "idle"
Ended == history'[Len(history')]

\* The getOrSet entry e went past validation and its read was a miss: the
\* read was answered and the key was absent, or the read failed.
PastValidation(e) == e.op = "getOrSet" /\ e.read # ""
Miss(e) == PastValidation(e) /\ ~e.present
Hit(e) == PastValidation(e) /\ e.present

\* The factory of entry e returned a value, which getOrSet returns.
ReturnsFactoryResult(e) ==
  /\ e.value # Undefined
  /\ e.nStore = 1
  /\ e.out.kind = "return"
  /\ e.out.val = e.value

\* C22: getOrSet on a miss (key absent, or cache unavailable) invokes the
\* factory exactly once, attempts one store of its result under the key with
\* the given ttl and returns the factory's result whether or not the store
\* succeeded; when the store succeeded, a get of the key that follows
\* returns that result.
C22_MissCallsFactoryOnce ==
  [][\A x \in Callers :
       Ends(x) /\ Miss(Ended) =>
         /\ Ended.nFactory = 1
         /\ Ended.out.how = "factory"
         /\ Ended.out.kind = "return" =>
              /\ ReturnsFactoryResult(Ended)
              /\ Ended.stored = "success" =>
                   /\ store'[Ended.key] =
                        Holds(serialize(Ended.value),
                              IF Truthy(Ended.ttl) THEN now + Seconds(Ended.ttl) ELSE NoTime)
                   /\ getResult(store'[Ended.key], now', Null) = Ended.value]_vars

\* What C23 says of a getOrSet entry e whose read found a value: the factory
\* is invoked if and only if a validator was supplied and reported the value
\* stale; when it is not invoked the cached value is returned and nothing is
\* written; when it is invoked, once, its result is stored best-effort and
\* returned.
FactoryOnlyWhenStale(e) ==
  /\ e.nFactory = (IF e.isValid /\ e.verdict = "stale" THEN 1 ELSE 0)
  /\ e.nValidator = (IF e.isValid THEN 1 ELSE 0)
  /\ e.nFactory = 0 =>
       /\ e.out.kind = "return"
       /\ e.out.val = e.cached
       /\ e.nStore = 0
       /\ store' = store
  /\ e.nFactory = 1 => e.out.how = "factory"
  /\ e.nFactory = 1 /\ e.out.kind = "return" => ReturnsFactoryResult(e)

ReadHit(e) == PastValidation(e) /\ e.cached # Null

isExpired(m, key, time) ==
  LET item == m.store[key]
  IN IF ~item.has THEN [m |-> m, expired |-> TRUE]
     ELSE IF item.expiresAt # NoTime /\ time > item.expiresAt
          THEN [m |-> [m EXCEPT !.store[key] = NoItem], expired |-> TRUE]
     ELSE [m |-> m, expired |-> FALSE]

\* handleError(operation, defaultValue, options)
handleError(m, operation, defaultValue, opt) ==
  IF (IF opt = "undefined" THEN m.defaultOnError ELSE opt) = "throw"
  THEN Throw("CacheUnavailableError", NoErr, operation, NoTime, "simulated", NoErr)
  ELSE Return(defaultValue, "simulated")

\* `a ?? b`
Coalesce(a, b) == IF a \in {Null, Undefined} THEN b ELSE a

mockGet(m, key, defaultValue, opt, time) ==
  LET def == Coalesce(defaultValue, Null)
      e == isExpired(m, key, time)
  IN IF m.simulateFailure THEN [m |-> m, out |-> handleError(m, "get", def, opt)]
     ELSE IF e.expired THEN [m |-> e.m, out |-> Return(def, "mock")]
     ELSE [m |-> m, out |-> Return(Coalesce(m.store[key].value, def), "mock")]

\* expiresAt: ttlSeconds ? Date.now() + ttlSeconds * 1000 : undefined
ExpiresAt(ttl, time) == IF Truthy(ttl) THEN time + Seconds(ttl) ELSE NoTime

mockSet(m, key, value, ttl, opt, time) ==
  IF m.simulateFailure THEN [m |-> m, out |-> handleError(m, "set", FALSE, opt)]
  ELSE [m |-> [m EXCEPT !.store[key] = Item(value, ExpiresAt(ttl, time))],
        out |-> Return(TRUE, "mock")]

mockExists(m, key, opt, time) ==
  LET e == isExpired(m, key, time)
  IN IF m.simulateFailure THEN [m |-> m, out |-> handleError(m, "exists", FALSE, opt)]
     ELSE IF e.expired THEN [m |-> e.m, out |-> Return(FALSE, "mock")]
     ELSE [m |-> m, out |-> Return(m.store[key].has, "mock")]

\* ttl: -2 for no key, -1 for no expiry, else the seconds that remain; an
\* item with no time left is deleted.
mockTtl(m, key, opt, time) ==
  LET e == isExpired(m, key, time)
      item == m.store[key]
  IN IF m.simulateFailure THEN [m |-> m, out |-> handleError(m, "ttl", 0 - 2, opt)]
     ELSE IF e.expired THEN [m |-> e.m, out |-> Return(0 - 2, "mock")]
     ELSE IF item.expiresAt = NoTime THEN [m |-> m, out |-> Return(0 - 1, "mock")]
     ELSE IF item.expiresAt - time <= 0
          THEN [m |-> [m EXCEPT !.store[key] = NoItem], out |-> Return(0 - 2, "mock")]
     ELSE [m |-> m, out |-> Return(item.expiresAt - time, "mock")]

Returned(op, key, out) == [pc |-> "returned", op |-> op, key |-> key, out |-> out]

\* A caller of the mock is between two operations.
AtRest(x) == job[x].pc \in {"idle", "returned"}

\* One synchronous method of the mock, called by x: r is what its operator
\* gives.
MockCall(x, op, key, r) ==
  /\ AtRest(x)
  /\ mock' = r.m
  /\ job' = [job EXCEPT ![x] = Returned(op, key, r.out)]
  /\ UNCHANGED <<provider, options, client, handles, calls, outcome, notified, now, store, history>>

MockValues == {Str("hello"), PlainObject}

MockGet(x, key, opt) == MockCall(x, "get", key, mockGet(mock, key, Undefined, opt, now))
MockSet(x, key, value, ttl, opt) ==
  MockCall(x, "set", key, mockSet(mock, key, value, ttl, opt, now))
MockExists(x, key, opt) == MockCall(x, "exists", key, mockExists(mock, key, opt, now))
MockTtl(x, key, opt) == MockCall(x, "ttl", key, mockTtl(mock, key, opt, now))

\* setSimulateFailure(simulate)
MockSetSimulateFailure(simulate) ==
  /\ mock' = [mock EXCEPT !.simulateFailure = simulate]
  /\ UNCHANGED <<provider, options, client, handles, calls, outcome, notified, now, store, job, history>>

\* getOrSet of the mock up to `await factory()`: this.get(key, undefined,
\* options) runs synchronously, and a cached value is returned.
MockGetOrSet(x, key, ttl, opt) ==
  /\ AtRest(x)
  /\ LET r == mockGet(mock, key, Undefined, opt, now)
     IN /\ mock' = r.m
        /\ job' = [job EXCEPT ![x] =
              IF r.out.kind = "throw" \/ r.out.val # Null
              THEN Returned("getOrSet", key, r.out)
              ELSE [pc |-> "mockFactory", op |-> "getOrSet", key |-> key, ttl |-> ttl]]
  /\ UNCHANGED <<provider, options, client, handles, calls, outcome, notified, now, store, history>>

\* factory() settles; its value is stored unless simulateFailure is set.
MockGetOrSetFactory(x, made) ==
  /\ job[x].pc = "mockFactory"
  /\ LET j == job[x]
     IN IF made = FactoryThrows
        THEN /\ job' = [job EXCEPT ![x] = Returned("getOrSet", j.key,
                          Throw(FactoryError, NoErr, "", NoTime, "factory", NoErr))]
             /\ mock' = mock
        ELSE /\ job' = [job EXCEPT ![x] = Returned("getOrSet", j.key, Return(made, "factory"))]
             /\ mock' = IF mock.simulateFailure THEN mock
                        ELSE [mock EXCEPT !.store[j.key] = Item(made, ExpiresAt(j.ttl, now))]
  /\ UNCHANGED <<provider, options, client, handles, calls, outcome, notified, now, store, history>>

\* SpecMock: caller a uses a MockCacheClient on one key, in both modes, with
\* failures simulated or not, while time passes.
InitMockWith(opts) ==
  /\ InitConnection(opts)
  /\ store = [k \in DataKeys |-> Absent]
  /\ mock \in {[InitMock EXCEPT !.simulateFailure = f, !.defaultOnError = e] :
                 f \in BOOLEAN, e \in {"graceful", "throw"}}
  /\ job = [x \in Callers |-> IdleJob]
  /\ history = <<>>
  /\ provider = InitProvider

InitSpecMock ==
  InitMockWith({o \in OptionSamples : ~o.autoConnect /\ ~o.maxReconnectAttempts.inf
                                      /\ o.onError = "graceful"})

NextMock ==
  \/ \E opt \in CallOptionSamples : MockGet("a", TheKey, opt)
  \/ \E v \in MockValues, ttl \in {NoTtl, Ttl(2), Ttl(4)}, opt \in CallOptionSamples :
        MockSet("a", TheKey, v, ttl, opt)
  \/ \E opt \in CallOptionSamples : MockExists("a", TheKey, opt)
  \/ \E opt \in CallOptionSamples : MockTtl("a", TheKey, opt)
  \/ \E ttl \in {NoTtl, Ttl(2)}, opt \in CallOptionSamples : MockGetOrSet("a", TheKey, ttl, opt)
  \/ \E made \in FactoryValues \cup {FactoryThrows} : MockGetOrSetFactory("a", made)
  \/ \E simulate \in BOOLEAN : MockSetSimulateFailure(simulate)
  \/ Tick

SpecMock == InitSpecMock /\ [][NextMock]_vars

\* A getOrSet that has returned does not end with the cache's own errors.
NeverSurfaces(e) ==
  e.op = "getOrSet" =>
    ~(e.out.kind = "throw" /\ e.out.err \in {"CacheUnavailableError", "CacheTimeoutError"})

\* C24: getOrSet never surfaces cache unavailability.  In every connection
\* state, however its read or its store fails, and whatever the client's
\* default and the call's onError are, getOrSet throws neither
\* CacheUnavailableError nor CacheTimeoutError.
C24_NeverSurfacesUnavailability ==
  /\ \A i \in 1..Len(history) : NeverSurfaces(history[i])
  /\ \A x \in Callers : job[x].pc = "returned" => NeverSurfaces(job[x])

\* C25: when the factory passed to getOrSet throws, that exception reaches
\* the caller as it is (not wrapped in a cache error, not replaced by a
\* sentinel, whatever the client's mode and the call's onError); no store is
\* attempted, nothing is stored, and the step in which it throws leaves the
\* connection as it was.
C25_FactoryErrorPropagates ==
  [][\A x \in Callers :
       Ends(x) /\ Ended.op = "getOrSet" /\ Ended.value = FactoryThrows =>
         /\ Ended.out.kind = "throw"
         /\ Ended.out.err = FactoryError
         /\ Ended.out.cause = NoErr
         /\ Ended.nStore = 0
         /\ Ended.stored = ""
         /\ store' = store
         /\ client' = client
         /\ handles' = handles]_vars

\* A getOrSet in throw mode, with onError throw in its options, whose read
\* was a miss and whose factory threw, has ended.
C25_Witness ==
  \E i \in 1..Len(history) :
    /\ history[i].op = "getOrSet"
    /\ history[i].value = FactoryThrows
    /\ history[i].out.kind = "throw"
    /\ history[i].read = "success"
    /\ history[i].onError = "throw"
    /\ options.onError = "throw"

\* ----------------------------------------------------------- decrementOrInit
\* A number is twice its value, so that halves can be told from integers;
\* NaN and the infinities are not finite.
Number(twice) == [fin |-> TRUE, twice |-> twice]
NaN == [fin |-> FALSE, twice |-> 0]

\* validateNumber(defaultValue, 'defaultValue')
validateFinite(value) == IF value.fin THEN "ok" ELSE "TypeError: must be a finite number"

\* defaultValue.toString(): the integer part (the floor) and whether ".5"
\* follows it.
DecimalText(value) == [int |-> value.twice \div 2, half |-> value.twice % 2 = 1]
IntegerText(int) == [int |-> int, half |-> FALSE]

\* A reply of the server: an integer or an error.  A Lua number is
\* converted to an integer reply by dropping its fraction.
IntegerReply(int) == [err |-> NoErr, int |-> int]
ErrorReply(err) == [err |-> err, int |-> 0]
NotAnInteger == "ERR value is not an integer or out of range"
Truncated(text) == IF text.half /\ text.int < 0 THEN text.int + 1 ELSE text.int

DECREMENT_OR_INIT_SCRIPT_Mutant(entry, time, argv1, argv2) ==
  IF PresentAt(entry, time)
  THEN [entry |-> entry, reply |-> IntegerReply(entry.text.int - 1)]
  ELSE [entry |-> Holds(argv1, time + argv2), reply |-> IntegerReply(Truncated(argv1))]

\* The script, which the server runs as one step: what the key holds
\* afterwards and the reply.
DECREMENT_OR_INIT_SCRIPT(entry, time, argv1, argv2) ==
  IF PresentAt(entry, time)
  THEN IF entry.text.half
       THEN [entry |-> entry, reply |-> ErrorReply(NotAnInteger)]
       ELSE [entry |-> Holds(IntegerText(entry.text.int - 1), entry.exp),
             reply |-> IntegerReply(entry.text.int - 1)]
  ELSE [entry |-> Holds(argv1, time + argv2), reply |-> IntegerReply(Truncated(argv1))]

\* Calls of decrementOrInit made so far.
Started == Len(history) + Cardinality({x \in Callers : job[x].pc # "idle"})

\* decrementOrInit(key, defaultValue, ttlSeconds, options) up to the script
\* being sent: validation, then the gate of executeCommand.
DecrementOrInit(x, key, defaultValue, ttl, opt) ==
  /\ Delivered
  /\ job[x].pc = "idle"
  /\ calls[x].pc = "idle"
  /\ Started < MaxCalls
  /\ LET err == FirstError(<<validateKey(KeyShape(key)), validateFinite(defaultValue),
                             validateTtl(ttl)>>)
         j == [pc |-> "sent", op |-> "decrementOrInit", key |-> key, d |-> defaultValue,
               ttl |-> ttl, onError |-> opt, at |-> NoTime, reply |-> ErrorReply(NoErr)]
     IN IF err # "ok"
        THEN Finish(x, j, Throw(err, NoErr, "", NoTime, "validation", NoErr))
        ELSE IF ~canExecuteCommands(World)
        THEN Finish(x, j, Executed(World, "decrementOrInit", defaultValue, opt,
                                   [how |-> "short-circuit", fault |-> NoErr], defaultValue).out)
        ELSE job' = [job EXCEPT ![x] = j] /\ UNCHANGED history
  /\ notified' = <<>>
  /\ UNCHANGED <<provider, options, client, handles, calls, outcome, now, store, mock>>

\* The server runs the script sent by x.
ServerEval(x) ==
  /\ job[x].pc = "sent"
  /\ LET j == job[x]
         r == DECREMENT_OR_INIT_SCRIPT(store[j.key], now, DecimalText(j.d), Seconds(j.ttl))
     IN /\ store' = [store EXCEPT ![j.key] = r.entry]
        /\ job' = [job EXCEPT ![x] = [j EXCEPT !.pc = "replied", !.at = now, !.reply = r.reply]]
  /\ notified' = <<>>
  /\ UNCHANGED <<provider, options, client, handles, calls, outcome, now, mock, history>>

\* The reply reaches the client in time (an error reply rejects the
\* command) or the guard timer fires first.
ReplyEnding(reply, inTime) ==
  IF ~inTime THEN [how |-> "timeout", fault |-> TimeoutError]
  ELSE IF reply.err = NoErr THEN [how |-> "success", fault |-> NoErr]
  ELSE [how |-> "error", fault |-> reply.err]

\* The command of x settles; its callback returns Number(result).
DecrementOrInitSettled(x, inTime) ==
  /\ job[x].pc = "replied"
  /\ Quiescent
  /\ LET j == job[x]
         r == Executed(World, "decrementOrInit", j.d, j.onError,
                       ReplyEnding(j.reply, inTime), Number(2 * j.reply.int))
     IN /\ client' = r.w.cl
        /\ handles' = r.w.hs
        /\ notified' = r.w.log
        /\ Finish(x, j, r.out)
  /\ UNCHANGED <<provider, options, calls, outcome, now, store, mock>>

\* SpecCounter: callers a and b call decrementOrInit('k', d, t) up to
\* MaxCalls times in all, one after the other or while the other's call is
\* under way, on a client with autoConnect disabled that b connects; time
\* passes.
CounterDefaults == {Number(6), Number(3)}

InitCounter ==
  /\ InitConnection({o \in OptionSamples : ~o.autoConnect /\ ~o.maxReconnectAttempts.inf})
  /\ store = [k \in DataKeys |-> Absent]
  /\ mock = InitMock
  /\ job = [x \in Callers |-> IdleJob]
  /\ history = <<>>
  /\ provider = InitProvider

NextCounter ==
  \/ \E x \in Callers, d \in CounterDefaults, ttl \in {Ttl(4)}, opt \in {"undefined"} :
        DecrementOrInit(x, TheKey, d, ttl, opt)
  \/ \E x \in Callers : ServerEval(x)
  \/ \E x \in Callers, inTime \in BOOLEAN : DecrementOrInitSettled(x, inTime)
  \/ Connect("b")
  \/ Deliver
  \/ \E h \in 1..MaxHandles : DoConnectResume(h)
  \/ AwaitResume("b")
  \/ \E h \in 1..MaxHandles : DriverConnectOk(h)
  \/ Tick

SpecCounter == InitCounter /\ [][NextCounter]_vars

\* The decrementOrInit calls made have all returned, with the same
\* arguments, and the cache was available to each of them: none was
\* short-circuited and none timed out.
CounterCalls == 1..Len(history)
AllReturned ==
  /\ Len(history) > 0
  /\ \A x \in Callers : job[x].pc = "idle"
  /\ \A i \in CounterCalls : history[i].op = "decrementOrInit"
SameArguments ==
  \A i \in CounterCalls : history[i].d = history[1].d /\ history[i].ttl = history[1].ttl
StayedAvailable == \A i \in CounterCalls : history[i].out.how \notin {"short-circuit", "timeout"}

\* The calls returned d, d-1, ..., d-(N-1), each once.
ReturnedBy(v) == {i \in CounterCalls : history[i].out.kind = "return" /\ history[i].out.val = v}
CountsDown ==
  \A n \in 0..(Len(history) - 1) :
    Cardinality(ReturnedBy(Number(history[1].d.twice - 2 * n))) = 1

\* C26 as stated: when the key starts absent and the cache stays available,
\* N calls of decrementOrInit(k, d, t), sequential or concurrent, return
\* exactly d, d-1, ..., d-(N-1), each once.  Refuted when the lifetime t
\* runs out between two of the calls (the later call initializes again and
\* returns d a second time) and when d is not an integer (1.5 is stored as
\* it is, the first call returns 1 and DECR fails on the stored text).
C26_AsStated == AllReturned /\ SameArguments /\ StayedAvailable => CountsDown

\* Every script ran before the lifetime started by the first had run out.
WithinLifetime ==
  \A i, j \in CounterCalls : history[j].at < history[i].at + Seconds(history[1].ttl)

\* C26 amended: decrementOrInit is atomic under racing callers.  When the
\* key starts absent, d is an integer, the cache stays available and the
\* server runs all N calls before the lifetime t started by the first has
\* run out, the N calls, sequential or concurrent, return exactly
\* d, d-1, ..., d-(N-1), each once.
C26_CountsDownWithinLifetime ==
  /\ AllReturned /\ SameArguments /\ StayedAvailable
  /\ history[1].d.twice % 2 = 0
  /\ WithinLifetime
  => CountsDown

\* Three calls by two callers counted down from an integer d, the server
\* having run the second to return before the first to return.
C26_Witness ==
  /\ AllReturned /\ SameArguments /\ StayedAvailable /\ WithinLifetime
  /\ Len(history) = MaxCalls
  /\ history[1].d.twice % 2 = 0
  /\ {history[i].caller : i \in CounterCalls} = Callers
  /\ history[1].out.val.twice < history[2].out.val.twice
  /\ \E i \in CounterCalls : history[i].at > 0

\* ------------------------------------------------------------ removeByPrefix
\* prefix.replace(/:?\*$/, ''): a "*" at the end is dropped, together with
\* a ":" right before it.
normalizedPrefix(prefix) ==
  LET n == Len(prefix)
  IN IF n > 0 /\ prefix[n] = "*"
     THEN IF n > 1 /\ prefix[n - 1] = ":" THEN SubSeq(prefix, 1, n - 2)
          ELSE SubSeq(prefix, 1, n - 1)
     ELSE prefix

\* key.startsWith(prefix)
startsWith(key, prefix) ==
  Len(prefix) <= Len(key) /\ SubSeq(key, 1, Len(prefix)) = prefix

\* MATCH of the server: "*" stands for any characters, "?" for any one
\* character, every other character for itself (none of the prefixes used
\* holds a bracket or a backslash).
RECURSIVE GlobMatch(_, _)
GlobMatch(pattern, key) ==
  IF pattern = <<>> THEN key = <<>>
  ELSE IF Head(pattern) = "*"
       THEN GlobMatch(Tail(pattern), key) \/ (key # <<>> /\ GlobMatch(pattern, Tail(key)))
  ELSE /\ key # <<>>
       /\ Head(pattern) = "?" \/ Head(pattern) = Head(key)
       /\ GlobMatch(Tail(pattern), Tail(key))

\* const pattern = `${normalizedPrefix}*`
scanPattern(prefix) == Append(normalizedPrefix(prefix), "*")

\* The keys the server holds.
KeysOf(st) == {k \in DataKeys : Present(st[k])}

Min(a, b) == IF a < b THEN a ELSE b

\* removeByPrefix(prefix, options) up to its first SCAN: the gate of
\* executeCommand.  There is no validation.
RemoveByPrefix(x, prefix, opt) ==
  /\ Delivered
  /\ job[x].pc = "idle"
  /\ calls[x].pc = "idle"
  /\ Len(history) < MaxOps
  /\ LET j == [pc |-> "scanning", op |-> "removeByPrefix", prefix |-> prefix, onError |-> opt,
               before |-> KeysOf(store), unvisited |-> KeysOf(store), deleted |-> {},
               count |-> 0, rounds |-> 0]
     IN IF ~canExecuteCommands(World)
        THEN Finish(x, j, Executed(World, "removeByPrefix", 0 - 1, opt,
                                   [how |-> "short-circuit", fault |-> NoErr], 0).out)
        ELSE job' = [job EXCEPT ![x] = j] /\ UNCHANGED history
  /\ notified' = <<>>
  /\ UNCHANGED <<provider, options, client, handles, calls, outcome, now, store, mock>>

\* One round of the loop: SCAN cursor MATCH pattern COUNT 100 visits a
\* batch of the keys and returns those that match, DEL deletes them and
\* its reply is added to count; the loop ends with cursor '0', when every
\* key has been visited.
RemoveByPrefixRound(x, batch) ==
  /\ job[x].pc = "scanning"
  /\ Quiescent
  /\ canExecuteCommands(World)
  /\ batch \subseteq job[x].unvisited
  /\ Cardinality(batch) = Min(ScanBatch, Cardinality(job[x].unvisited))
  /\ LET j == job[x]
         keys == {k \in batch : Present(store[k]) /\ GlobMatch(scanPattern(j.prefix), k)}
         j1 == [j EXCEPT !.unvisited = @ \ batch, !.deleted = @ \cup keys,
                         !.count = @ + Cardinality(keys), !.rounds = @ + 1]
         r == Executed(World, "removeByPrefix", 0 - 1, j.onError,
                       [how |-> "success", fault |-> NoErr], j1.count)
     IN /\ store' = [k \in DataKeys |-> IF k \in keys THEN Absent ELSE store[k]]
        /\ IF j1.unvisited = {}
           THEN /\ client' = r.w.cl
                /\ handles' = r.w.hs
                /\ Finish(x, j1, r.out)
           ELSE /\ job' = [job EXCEPT ![x] = j1]
                /\ UNCHANGED <<client, handles, history>>
  /\ notified' = <<>>
  /\ UNCHANGED <<provider, options, calls, outcome, now, mock>>

\* A SCAN or a DEL of the loop fails or the guard timer fires.
RemoveByPrefixFailed(x, end) ==
  /\ job[x].pc = "scanning"
  /\ Quiescent
  /\ end \in Endings(World)
  /\ end.how # "success"
  /\ LET j == job[x]
         r == Executed(World, "removeByPrefix", 0 - 1, j.onError, end, 0)
     IN /\ client' = r.w.cl
        /\ handles' = r.w.hs
        /\ notified' = r.w.log
        /\ Finish(x, j, r.out)
  /\ UNCHANGED <<provider, options, calls, outcome, now, store, mock>>

\* removeByPrefix of the mock.
mockRemoveByPrefix(m, prefix, opt) ==
  LET keys == {k \in DataKeys : m.store[k].has /\ startsWith(k, normalizedPrefix(prefix))}
  IN IF m.simulateFailure THEN [m |-> m, out |-> handleError(m, "removeByPrefix", 0 - 1, opt)]
     ELSE [m |-> [m EXCEPT !.store = [k \in DataKeys |-> IF k \in keys THEN NoItem ELSE @[k]]],
           out |-> Return(Cardinality(keys), "mock")]

MockRemoveByPrefix(x, prefix, opt) ==
  MockCall(x, "removeByPrefix", prefix, mockRemoveByPrefix(mock, prefix, opt))

\* SpecPrefix: the server and a mock hold the same keys, any of DataKeys;
\* caller a calls removeByPrefix on the client, which b connects, and b
\* calls removeByPrefix on the mock.
PrefixSamples == {<<"p", ":", "*">>, <<"p", ":">>, <<"q", ":", "*">>, <<"p", "?">>}

InitPrefix ==
  /\ InitConnection({o \in OptionSamples : ~o.autoConnect /\ ~o.maxReconnectAttempts.inf
                                           /\ o.onError = "graceful"})
  /\ \E content \in SUBSET DataKeys :
       /\ store = [k \in DataKeys |-> IF k \in content THEN Holds("hello", NoTime) ELSE Absent]
       /\ mock = [InitMock EXCEPT
                    !.store = [k \in DataKeys |-> IF k \in content
                                                  THEN Item(Str("hello"), NoTime) ELSE NoItem]]
  /\ job = [x \in Callers |-> IdleJob]
  /\ history = <<>>
  /\ provider = InitProvider

NextPrefix ==
  \/ \E prefix \in PrefixSamples : RemoveByPrefix("a", prefix, "undefined")
  \/ \E batch \in SUBSET DataKeys : RemoveByPrefixRound("a", batch)
  \/ \E end \in Endings(World) : RemoveByPrefixFailed("a", end)
  \/ \E prefix \in PrefixSamples : MockRemoveByPrefix("b", prefix, "undefined")
  \/ Connect("b")
  \/ Deliver
  \/ \E h \in 1..MaxHandles : DoConnectResume(h)
  \/ AwaitResume("b")
  \/ \E h \in 1..MaxHandles : DriverConnectOk(h)

SpecPrefix == InitPrefix /\ [][NextPrefix]_vars

\* The prefix as the caller means it, without the wildcard marker at its
\* end, and the keys of a content that start with it.
LiteralPrefix(prefix) ==
  IF Len(prefix) > 0 /\ prefix[Len(prefix)] = "*" THEN SubSeq(prefix, 1, Len(prefix) - 1)
  ELSE prefix
WithPrefix(content, prefix) == {k \in content : startsWith(k, LiteralPrefix(prefix))}

\* The same prefix with the marker if it has none, without it if it has one.
Twin(prefix) == IF LiteralPrefix(prefix) = prefix THEN Append(prefix, "*") ELSE LiteralPrefix(prefix)

\* This step is a removeByPrefix of the mock called by b.
MockRemoves == job'["b"].pc = "returned" /\ (job'["b"] # job["b"] \/ mock' # mock)
MockKeys(m) == {k \in DataKeys : m.store[k].has}

\* This step ends a removeByPrefix of the client that succeeded.
ClientRemoved(x) == Ends(x) /\ Ended.op = "removeByPrefix" /\ Ended.out.how = "success"

\* C27: removeByPrefix("app:prod:*") and removeByPrefix("app:prod:") are
\* equivalent: on every store content a call with the wildcard marker and
\* a call without it delete the same keys and return the same count, on
\* the client and on the mock.
C27_WildcardEquivalent ==
  [][/\ \A x \in Callers :
          ClientRemoved(x) =>
            LET twin == {k \in Ended.before : GlobMatch(scanPattern(Twin(Ended.prefix)), k)}
            IN Ended.deleted = twin /\ Ended.out.val = Cardinality(twin)
     /\ MockRemoves =>
          LET twin == mockRemoveByPrefix(mock, Twin(job'["b"].key), "undefined")
          IN mock' = twin.m /\ job'["b"].out = twin.out]_vars

\* C28: removeByPrefix deletes every key that starts with the literal
\* prefix and no others, and returns the number of keys deleted, added up
\* over the scan rounds: clearing 'p:*' leaves 'p2:x' untouched.
C28_LiteralPrefixOnly ==
  [][/\ \A x \in Callers :
          ClientRemoved(x) =>
            /\ Ended.deleted = WithPrefix(Ended.before, Ended.prefix)
            /\ KeysOf(store') = Ended.before \ WithPrefix(Ended.before, Ended.prefix)
            /\ Ended.out.val = Cardinality(WithPrefix(Ended.before, Ended.prefix))
     /\ MockRemoves =>
          /\ MockKeys(mock') = MockKeys(mock) \ WithPrefix(MockKeys(mock), job'["b"].key)
          /\ job'["b"].out.val = Cardinality(WithPrefix(MockKeys(mock), job'["b"].key))]_vars

\* ---------------------------------------------------------------- set, get
\* set(key, value, ttlSeconds, options), entered in the history with the
\* time it ran at.
Set(x, key, value, ttl, opt, end) ==
  /\ job[x].pc = "idle"
  /\ calls[x].pc = "idle"
  /\ Len(history) < MaxPair
  /\ LET err == FirstError(<<validateKey(KeyShape(key)), validateOptionalTtl(ttl)>>)
         j == [pc |-> "set", op |-> "set", key |-> key, value |-> value, ttl |-> ttl,
               at |-> now]
         r == Executed(World, "set", FALSE, opt, end, TRUE)
     IN IF err # "ok"
        THEN /\ Delivered
             /\ Finish(x, j, Throw(err, NoErr, "", NoTime, "validation", NoErr))
             /\ notified' = <<>>
             /\ UNCHANGED <<client, handles, store>>
        ELSE /\ end \in Endings(World)
             /\ Turn(end)
             /\ client' = r.w.cl
             /\ handles' = r.w.hs
             /\ notified' = r.w.log
             /\ store' = IF end.how = "success" THEN setCallback(key, value, ttl) ELSE store
             /\ Finish(x, j, r.out)
  /\ UNCHANGED <<provider, options, calls, outcome, now, mock>>

\* get(key, defaultValue, options)
Get(x, key, defaultValue, opt, end) ==
  /\ job[x].pc = "idle"
  /\ calls[x].pc = "idle"
  /\ Len(history) < MaxPair
  /\ LET err == validateKey(KeyShape(key))
         j == [pc |-> "get", op |-> "get", key |-> key, def |-> defaultValue, at |-> now]
         def == Coalesce(defaultValue, Null)
         r == Executed(World, "get", def, opt, end, getCallback(key, def))
     IN IF err # "ok"
        THEN /\ Delivered
             /\ Finish(x, j, Throw(err, NoErr, "", NoTime, "validation", NoErr))
             /\ notified' = <<>>
             /\ UNCHANGED <<client, handles>>
        ELSE /\ end \in Endings(World)
             /\ Turn(end)
             /\ client' = r.w.cl
             /\ handles' = r.w.hs
             /\ notified' = r.w.log
             /\ Finish(x, j, r.out)
  /\ UNCHANGED <<provider, options, calls, outcome, now, store, mock>>

\* SpecRoundTrip: caller a calls set and get on key 'k', up to MaxPair
\* times in all, on a client with autoConnect disabled that b connects;
\* time passes.
RoundTripValues ==
  {Str("hello"), Str("123"), Str("null"), Num("123"), Null, PlainObject, PollutedObject}

InitRoundTrip ==
  /\ InitConnection({o \in OptionSamples : ~o.autoConnect /\ ~o.maxReconnectAttempts.inf
                                           /\ o.onError = "graceful"})
  /\ InitData

NextRoundTrip ==
  \/ \E v \in RoundTripValues, ttl \in {NoTtl, Ttl(2)}, end \in Endings(World) :
        Set("a", TheKey, v, ttl, "undefined", end)
  \/ \E def \in {Undefined, Str("d")}, end \in Endings(World) :
        Get("a", TheKey, def, "undefined", end)
  \/ Connect("b")
  \/ Deliver
  \/ \E h \in 1..MaxHandles : DoConnectResume(h)
  \/ AwaitResume("b")
  \/ \E h \in 1..MaxHandles : DriverConnectOk(h)
  \/ Tick

SpecRoundTrip == InitRoundTrip /\ [][NextRoundTrip]_vars

\* The value without the keys __proto__, constructor and prototype.
WithoutPollutingKeys(value) == IF value = PollutedObject THEN PlainObject ELSE value

\* A set that succeeded was followed by a get of the same key that
\* succeeded before the lifetime given to set had run out.
SetThenGet ==
  /\ Len(history) = 2
  /\ history[1].op = "set" /\ history[1].out.how = "success"
  /\ history[2].op = "get" /\ history[2].out.how = "success"
  /\ history[2].key = history[1].key
  /\ Truthy(history[1].ttl) => history[2].at < history[1].at + Seconds(history[1].ttl)

\* C29: round trip.  For every valid key, value and ttl, set(key, value,
\* ttl) followed by get(key) before the ttl elapses returns a value equal
\* to the original, strings whose text is itself JSON ("123", "null")
\* included, apart from the stripping of __proto__, constructor and
\* prototype keys.
C29_RoundTrip ==
  SetThenGet => history[2].out.val = WithoutPollutingKeys(history[1].value)

\* What get, exists and ttl of the mock report of key 'k' when called now.
GetReportsPresent == mockGet(mock, TheKey, Undefined, "graceful", now).out.val # Null
ExistsReportsPresent == mockExists(mock, TheKey, "graceful", now).out.val
TtlReportsPresent == mockTtl(mock, TheKey, "graceful", now).out.val # 0 - 2

\* The mock holds under 'k' a value other than null, set with a lifetime.
HoldsWithLifetime ==
  /\ ~mock.simulateFailure
  /\ mock.store[TheKey].has
  /\ mock.store[TheKey].value # Null
  /\ mock.store[TheKey].expiresAt # NoTime

\* C30: expiry is observed consistently.  Once the lifetime given to set
\* has elapsed, get returns null, exists returns false and ttl returns -2;
\* before it has elapsed all three report the key present; at every instant
\* the three agree.
C30_ExpiryConsistent ==
  HoldsWithLifetime =>
    /\ GetReportsPresent = ExistsReportsPresent
    /\ ExistsReportsPresent = TtlReportsPresent
    /\ now >= mock.store[TheKey].expiresAt => ~GetReportsPresent
    /\ now < mock.store[TheKey].expiresAt => GetReportsPresent

\* ---------------------------------------------------------------- observers
\* onStateChange(callback) and onError(callback): the callback is pushed.
Registered == Len(client.stateChangeCallbacks) + Len(client.errorCallbacks)

OnStateChange(kind) ==
  /\ Delivered
  /\ Registered < MaxObservers
  /\ client' = [client EXCEPT !.stateChangeCallbacks = Append(@, kind)]
  /\ outcome' = NoOutcome
  /\ notified' = <<>>
  /\ UNCHANGED <<dvars, options, handles, calls, now>>

OnError(kind) ==
  /\ Delivered
  /\ Registered < MaxObservers
  /\ client' = [client EXCEPT !.errorCallbacks = Append(@, kind)]
  /\ outcome' = NoOutcome
  /\ notified' = <<>>
  /\ UNCHANGED <<dvars, options, handles, calls, now>>

\* SpecObservers: observers that return or throw are registered at any
\* time while caller a calls get(key), connect() and disconnect() and the
\* driver connects and fails.
InitObservers ==
  InitWith({o \in OptionSamples : o.autoConnect /\ ~o.maxReconnectAttempts.inf
                                  /\ o.onError = "graceful"})

NextObservers ==
  \/ \E kind \in ObserverKinds : OnStateChange(kind)
  \/ \E kind \in ObserverKinds : OnError(kind)
  \/ Invoke("a", "get", BaseArgs, "undefined")
  \/ Connect("a")
  \/ Disconnect
  \/ Continue
  \/ Environment({"ok"})

SpecObservers == InitObservers /\ [][NextObservers]_vars

\* The world with every observer replaced by one that returns.
Returning(callbacks) == [i \in DOMAIN callbacks |-> "returns"]
Quiet(w) ==
  [w EXCEPT !.cl.stateChangeCallbacks = Returning(@),
            !.cl.errorCallbacks = Returning(@),
            !.log = [i \in DOMAIN @ |-> [@[i] EXCEPT !.called = Returning(@)]]]

\* The state-change rounds of a log, and the state the client was in before
\* round i of the log made in a step from state `from`.
StateRounds(log) == {i \in DOMAIN log : log[i].to = "onStateChange"}
StateBefore(log, i, from) ==
  LET earlier == {j \in StateRounds(log) : j < i}
  IN IF earlier = {} THEN from
     ELSE log[CHOOSE j \in earlier : \A k \in earlier : k <= j].status.state

\* Every round of the step called every observer registered, each
\* state-change round with a snapshot of the state just entered, and the
\* state the step ends in was notified last.
EveryObserverNotified ==
  /\ \A i \in DOMAIN notified' :
       IF notified'[i].to = "onStateChange"
       THEN /\ notified'[i].called = client'.stateChangeCallbacks
            /\ notified'[i].status.state # StateBefore(notified', i, client.state)
       ELSE notified'[i].called = client'.errorCallbacks
  /\ client'.state # client.state =>
       /\ StateRounds(notified') # {}
       /\ StateBefore(notified', Len(notified') + 1, client.state) = client'.state

\* Each synchronous piece of the client that notifies observers leaves the
\* same fields, handles and rounds, and a short-circuited call is settled
\* the same way, whether the observers registered throw or return.
ThrowingChangesNothing ==
  LET w == World
      Same(a, b) == Quiet(a) = b
  IN /\ \A st \in ConnectionStates : Same(setState(w, st), setState(Quiet(w), st))
     /\ \A e \in EventErrors \cup ReplyErrors \cup {TimeoutError} :
          /\ Same(handleConnectionFailure(w, e), handleConnectionFailure(Quiet(w), e))
          /\ Same(handleCommandError(w, e), handleCommandError(Quiet(w), e))
     /\ Same(enterCooldown(w), enterCooldown(Quiet(w)))
     /\ Same(disconnect(w), disconnect(Quiet(w)))
     /\ Same(endHandler(closeHandler(w)), endHandler(closeHandler(Quiet(w))))
     /\ \A x \in Callers : Unavailable(calls[x], w.cl) = Unavailable(calls[x], Quiet(w).cl)

\* C31: every accepted state transition notifies every registered
\* onStateChange observer with a snapshot whose state is the new state, and
\* an observer that throws breaks nothing: the observers after it are still
\* notified, the transition and the status fields end up as they would
\* without it, and the call that caused the transition has the same outcome.
C31_ObserversCannotBreak ==
  /\ [][EveryObserverNotified]_vars
  /\ []ThrowingChangesNothing

\* A transition has just notified an observer that throws and then one
\* that returns.
C31_Witness ==
  \E i \in DOMAIN notified :
    /\ notified[i].to = "onStateChange"
    /\ notified[i].called = <<"throws", "returns">>
    /\ notified[i].status.state = client.state
    /\ client.state \in {"cooldown", "failed", "connected"}

\* ------------------------------------------------------------ CacheProvider
\* Each static method runs to its end synchronously; provider.calls keeps
\* what each call made so far was given and what it returned or threw.
ClientInstances == {"client1", "client2"}
AlreadyInitialized == "Error: CacheProvider is already initialized. Call reset() first to reinitialize."
NotInitialized == "Error: CacheProvider is not initialized. Call initialize() first."

ProviderCall(method, arg, kind, val) == [method |-> method, arg |-> arg, kind |-> kind, val |-> val]

MoreProviderCalls == Len(provider.calls) < MaxProviderCalls

\* A call of CacheProvider that leaves the field as `field` and ends as `call`.
ProviderStep(field, call) ==
  /\ provider' = [client |-> field, calls |-> Append(provider.calls, call)]
  /\ UNCHANGED <<options, client, handles, calls, outcome, notified, now, store, mock, job,
                 history>>

initialize_Mutant(c) ==
  /\ MoreProviderCalls
  /\ ProviderStep(c, ProviderCall("initialize", c, "return", "undefined"))

initialize(c) ==
  /\ MoreProviderCalls
  /\ IF provider.client # NoClient
     THEN ProviderStep(provider.client,
                       ProviderCall("initialize", c, "throw", AlreadyInitialized))
     ELSE ProviderStep(c, ProviderCall("initialize", c, "return", "undefined"))

getClient ==
  /\ MoreProviderCalls
  /\ IF provider.client = NoClient
     THEN ProviderStep(provider.client,
                       ProviderCall("getClient", "", "throw", NotInitialized))
     ELSE ProviderStep(provider.client,
                       ProviderCall("getClient", "", "return", provider.client))

isInitialized ==
  /\ MoreProviderCalls
  /\ ProviderStep(provider.client,
                  ProviderCall("isInitialized", "", "return",
                               IF provider.client # NoClient THEN "true" ELSE "false"))

reset ==
  /\ MoreProviderCalls
  /\ ProviderStep(NoClient, ProviderCall("reset", "", "return", "undefined"))

\* SpecProvider: any MaxProviderCalls calls of CacheProvider, with two
\* client instances to register.
InitProviderSpec ==
  InitWith({o \in OptionSamples : o.autoConnect /\ ~o.maxReconnectAttempts.inf
                                  /\ o.onError = "graceful"})

NextProvider ==
  \/ \E c \in ClientInstances : initialize(c)
  \/ getClient
  \/ isInitialized
  \/ reset
  \/ Tick

SpecProvider == InitProviderSpec /\ [][NextProvider]_vars

\* The client registered when call i is made: the argument of the latest
\* initialize() before i that returned and was not followed by a reset(),
\* NoClient when there is none.
Succeeded(j) == provider.calls[j].method = "initialize" /\ provider.calls[j].kind = "return"
RegisteredAt(i) ==
  LET live == {j \in 1..(i - 1) :
                 /\ Succeeded(j)
                 /\ \A k \in (j + 1)..(i - 1) : provider.calls[k].method # "reset"}
  IN IF live = {} THEN NoClient
     ELSE provider.calls[CHOOSE j \in live : \A k \in live : k <= j].arg

\* C32: CacheProvider is guarded against double initialization.
\* initialize() while a client is registered throws and leaves the
\* registered client unchanged; getClient() returns the client of the last
\* successful initialize() and throws when no client is registered (never
\* initialized, or after reset()); only reset() makes a new initialize()
\* succeed.
C32_SingleInitialization ==
  /\ provider.client = RegisteredAt(Len(provider.calls) + 1)
  /\ \A i \in 1..Len(provider.calls) :
       LET call == provider.calls[i]
       IN /\ call.method = "initialize" =>
               /\ call.kind = "throw" <=> RegisteredAt(i) # NoClient
               /\ call.kind = "throw" => RegisteredAt(i + 1) = RegisteredAt(i)
               /\ call.kind = "return" =>
                    i = 1 \/ \A j \in 1..(i - 1) : Succeeded(j) =>
                               \E k \in (j + 1)..(i - 1) : provider.calls[k].method = "reset"
          /\ call.method = "getClient" =>
               IF RegisteredAt(i) = NoClient THEN call.kind = "throw"
               ELSE call.kind = "return" /\ call.val = RegisteredAt(i)

\* A second initialize() was refused, getClient() returned the first client,
\* and after reset() the second client was registered.
C32_Witness ==
  /\ Len(provider.calls) = MaxProviderCalls
  /\ provider.calls[1] = ProviderCall("initialize", "client1", "return", "undefined")
  /\ provider.calls[2] = ProviderCall("initialize", "client2", "throw", AlreadyInitialized)
  /\ provider.calls[3] = ProviderCall("getClient", "", "return", "client1")
  /\ provider.calls[4].method = "reset"
  /\ provider.client = NoClient

\* ------------------------------------------------------------ guard timers
\* The calls whose guard timer is pending, and the calls awaiting their race.
PendingTimers == {x \in Callers : calls[x].timer}
AwaitingRace == {x \in Callers : calls[x].pc = "racing"}

\* A call that passed the gate ends in this step: by the driver's answer, by
\* the driver's failure or by its guard.
RaceCompleted(x) ==
  /\ outcome'.kind # "none"
  /\ outcome'.caller = x
  /\ outcome'.how \in {"success", "error", "timeout"}

\* C33: the Timeout Guard never leaks a timer.  When a call that passed the
\* gate completes in any way (success, driver failure, timeout), its guard
\* timer is no longer pending; and at any moment the pending guard timers
\* are exactly those of the calls still awaiting their race.
C33_NoTimerLeak ==
  /\ [][\A x \in Callers : RaceCompleted(x) => x \notin PendingTimers']_vars
  /\ [](PendingTimers = AwaitingRace)

\* Both callers' races were pending at once, and one of them has just been
\* ended by the driver's answer while the other still waits.
C33_Witness ==
  /\ outcome # NoOutcome
  /\ outcome.how = "success"
  /\ \E x \in Callers : x # outcome.caller /\ PendingTimers = {x}

\* Companion witnesses: a race ended by its guard, and one by a failure.
C33_WitnessTimeout == outcome # NoOutcome /\ outcome.how = "timeout" /\ outcome.nreq > 0

\* ------------------------------------------------- counters of the mock
\* The sources hold two copies of class MockCacheClient: the one that
\* exports WrongTypeError (src/unnamed/part_003) and the one at
\* src/src/MockCacheClient.ts, the path the mock's tests import
\* ('../src/MockCacheClient.js').  A mock instance is of either class; the
\* field `file` of its record says which.
TypedCopy == "src/unnamed/part_003"
NamedCopy == "src/src/MockCacheClient.ts"
MockCopies == {TypedCopy, NamedCopy}

\* A JavaScript number that is the integer n.
Integer(n) == [t |-> "number", s |-> "", n |-> n]

WrongTypeError(operation) == Throw("WrongTypeError", NoErr, operation, NoTime, "mock", NoErr)

\* increment(key, amount, defaultValue, options)
mockIncrement(m, key, amount, defaultValue, opt, time) ==
  LET e == isExpired(m, key, time)
      item == m.store[key]
      first == IF m.file = TypedCopy THEN amount ELSE defaultValue + amount
      missing == IF m.file = TypedCopy THEN 0 ELSE defaultValue
      newValue == (IF item.value.t = "number" THEN item.value.n ELSE missing) + amount
  IN IF m.simulateFailure
     THEN [m |-> m, out |-> handleError(m, "increment", Integer(defaultValue), opt)]
     ELSE IF e.expired
     THEN [m |-> [e.m EXCEPT !.store[key] = Item(Integer(first), NoTime)],
           out |-> Return(Integer(first), "mock")]
     ELSE IF m.file = TypedCopy /\ item.value.t # "number"
     THEN [m |-> m, out |-> WrongTypeError("INCRBY")]
     ELSE [m |-> [m EXCEPT !.store[key].value = Integer(newValue)],
           out |-> Return(Integer(newValue), "mock")]

\* decrement: return this.increment(key, -amount, defaultValue, options)
mockDecrement(m, key, amount, defaultValue, opt, time) ==
  mockIncrement(m, key, 0 - amount, defaultValue, opt, time)

\* decrementOrInit(key, defaultValue, ttlSeconds, options)
mockDecrementOrInit(m, key, defaultValue, ttl, opt, time) ==
  LET e == isExpired(m, key, time)
      item == m.store[key]
      newValue == (IF item.value.t = "number" THEN item.value.n ELSE defaultValue) - 1
  IN IF m.simulateFailure
     THEN [m |-> m, out |-> handleError(m, "decrementOrInit", Integer(defaultValue), opt)]
     ELSE IF e.expired
     THEN [m |-> [e.m EXCEPT !.store[key] = Item(Integer(defaultValue), time + Seconds(ttl))],
           out |-> Return(Integer(defaultValue), "mock")]
     ELSE IF m.file = TypedCopy /\ item.value.t # "number"
     THEN [m |-> m, out |-> WrongTypeError("DECR")]
     ELSE [m |-> [m EXCEPT !.store[key].value = Integer(newValue)],
           out |-> Return(Integer(newValue), "mock")]

\* A counter method of the mock, called by x; history keeps the call: the
\* entry under the key before and after it, whether failures were
\* simulated, and what the call was given and gave back.
MockCounterCall(x, op, key, amount, defaultValue, r) ==
  /\ Len(history) < MaxPair
  /\ mock' = r.m
  /\ job' = [job EXCEPT ![x] = Returned(op, key, r.out)]
  /\ history' = Append(history,
       [op |-> op, key |-> key, amount |-> amount, defaultValue |-> defaultValue,
        simulated |-> mock.simulateFailure, existing |-> ~isExpired(mock, key, now).expired,
        before |-> mock.store[key], after |-> r.m.store[key], out |-> r.out])
  /\ UNCHANGED <<provider, options, client, handles, calls, outcome, notified, now, store>>

MockIncrement(x, key, amount, defaultValue, opt) ==
  /\ AtRest(x)
  /\ MockCounterCall(x, "increment", key, amount, defaultValue,
                     mockIncrement(mock, key, amount, defaultValue, opt, now))

MockDecrement(x, key, amount, defaultValue, opt) ==
  /\ AtRest(x)
  /\ MockCounterCall(x, "decrement", key, amount, defaultValue,
                     mockDecrement(mock, key, amount, defaultValue, opt, now))

MockDecrementOrInit(x, key, defaultValue, ttl, opt) ==
  /\ AtRest(x)
  /\ MockCounterCall(x, "decrementOrInit", key, 1, defaultValue,
                     mockDecrementOrInit(mock, key, defaultValue, ttl, opt, now))

\* SpecMockCounter: caller a sets 'k' to a text or a number, with or without
\* a lifetime, and calls the counter methods, in both modes, on an instance
\* of either copy that simulates failures or does not.
InitMockCounter ==
  /\ InitConnection({o \in OptionSamples : ~o.autoConnect /\ ~o.maxReconnectAttempts.inf
                                            /\ o.onError = "graceful"})
  /\ store = [k \in DataKeys |-> Absent]
  /\ mock \in {[file |-> f] @@ [InitMock EXCEPT !.simulateFailure = s, !.defaultOnError = e] :
                 f \in MockCopies, s \in BOOLEAN, e \in {"graceful", "throw"}}
  /\ job = [x \in Callers |-> IdleJob]
  /\ history = <<>>
  /\ provider = InitProvider

MockCounterValues == {Str("hello"), Integer(10)}
MockAmounts == {5}
MockDefaults == {100}

NextMockCounter ==
  \/ \E v \in MockCounterValues, ttl \in {NoTtl, Ttl(2)} : MockSet("a", TheKey, v, ttl, "undefined")
  \/ \E n \in MockAmounts, d \in MockDefaults, opt \in CallOptionSamples :
        MockIncrement("a", TheKey, n, d, opt)
  \/ \E n \in MockAmounts, d \in MockDefaults, opt \in CallOptionSamples :
        MockDecrement("a", TheKey, n, d, opt)
  \/ \E d \in MockDefaults, opt \in CallOptionSamples :
        MockDecrementOrInit("a", TheKey, d, Ttl(4), opt)
  \/ Tick

SpecMockCounter == InitMockCounter /\ [][NextMockCounter]_vars

\* C34: in the in-memory client, increment, decrement and decrementOrInit on
\* an existing key that holds a non-numeric value throw WrongTypeError in
\* graceful mode as in throw mode (no default is returned, the value is not
\* coerced) and leave the stored entry, value and expiry, as it was; and
\* increment on an absent key stores and returns amount, whatever
\* defaultValue is.  Stated of the calls made while no failure is simulated.
C34_WrongTypeThrows ==
  \A i \in 1..Len(history) :
    LET c == history[i]
    IN ~c.simulated =>
         /\ c.existing /\ c.before.value.t # "number" =>
              /\ c.out.kind = "throw"
              /\ c.out.err = "WrongTypeError"
              /\ c.after = c.before
         /\ c.op = "increment" /\ ~c.existing =>
              /\ c.out.kind = "return"
              /\ c.out.val = Integer(c.amount)
              /\ c.after.value = Integer(c.amount)

\* The same of the instances of the copy that exports WrongTypeError.
C34_TypedCopy == mock.file = TypedCopy => C34_WrongTypeThrows

\* An increment of a key holding a text threw and a decrementOrInit after it
\* threw as well, the entry still being the text with its expiry.
C34_TypedWitness ==
  /\ mock.file = TypedCopy
  /\ Len(history) = 2
  /\ history[1].op = "increment" /\ history[1].out.kind = "throw"
  /\ history[2].op = "decrementOrInit" /\ history[2].out.kind = "throw"
  /\ history[2].after.value = Str("hello") /\ history[2].after.expiresAt # NoTime

\* ------------------------------------------------- attempts during cooldown
\* This step starts an underlying connect: a driver handle is created and
\* its connect() called.
StartsConnect ==
  \E h \in Handles : handles[h].status = "unused" /\ handles'[h].conn = "pending"

\* C35: while the state is cooldown and the cooldown window has not elapsed,
\* no operation of the public interface starts an underlying connect
\* attempt: no command does, and an explicit connect() does not either.
C35_NoAttemptInCooldown ==
  [][client.state = "cooldown" /\ ~CooldownExpired(client) => ~StartsConnect]_vars

\* The part of it that is about commands: a step of a command taken in
\* cooldown before the window has elapsed starts no connect.
C35_CommandsOnly ==
  [][client.state = "cooldown" /\ ~CooldownExpired(client)
       /\ (\E x \in Callers : calls'[x].op \in Commands /\ calls'[x] # calls[x])
     => ~StartsConnect]_vars

GoesDown(h) == handles[h].status # "end" /\ handles'[h].status = "end"

\* C37: lifecycle events (error, close, end) emitted by a driver handle that
\* the client has already replaced or released never change the client's
\* state, reconnectAttempts or cooldown: only the events of the current
\* handle are acted upon.
C37_StaleEventsIgnored ==
  [][\A h \in Handles :
       GoesDown(h) /\ client.redis # h =>
         /\ client'.state = client.state
         /\ client'.reconnectAttempts = client.reconnectAttempts
         /\ client'.cooldownEndsAt = client.cooldownEndsAt]_vars

\* The part of it that is about released handles: after disconnect() the
\* events of the handle it released change nothing.
C37_ReleasedIgnored ==
  [][\A h \in Handles : GoesDown(h) /\ ~handles[h].listeners => client' = client]_vars

\* ------------------------------------------------- a loop that outlives its call
\* Promise.race does not stop command(): when the guard timer of a
\* removeByPrefix fires, executeCommand returns to the caller and the loop
\* of command() stays suspended on the request it is awaiting.  job[x]
\* keeps the loop (pc "detached") with the number of requests it has sent
\* since the call returned (late); the call is entered in the history.
GuardFired == [how |-> "timeout", fault |-> TimeoutError]

RemoveByPrefixTimeout(x) ==
  /\ job[x].pc = "scanning"
  /\ Quiescent
  /\ GuardFired \in Endings(World)
  /\ LET j == job[x]
         r == Executed(World, "removeByPrefix", 0 - 1, j.onError, GuardFired, 0)
     IN /\ client' = r.w.cl
        /\ handles' = r.w.hs
        /\ notified' = r.w.log
        /\ history' = Append(history, [j EXCEPT !.pc = "done"] @@ [caller |-> x, out |-> r.out])
        /\ job' = [job EXCEPT ![x] = [j EXCEPT !.pc = "detached"] @@ [late |-> 0]]
  /\ UNCHANGED <<provider, options, calls, outcome, now, store, mock>>

\* The loop resumes after the call has returned.  `this.redis!` is read
\* anew at every request: with no handle the loop ends with a TypeError,
\* on a handle that is not ready the request is rejected and the loop
\* ends, and on a ready handle the batch is scanned and its matching keys
\* are deleted.  Nobody awaits the loop any more: the client's fields are
\* not touched and nothing is returned.
RemoveByPrefixLateRound(x, batch) ==
  /\ job[x].pc = "detached"
  /\ Quiescent
  /\ batch \subseteq job[x].unvisited
  /\ Cardinality(batch) = Min(ScanBatch, Cardinality(job[x].unvisited))
  /\ LET j == job[x]
         keys == {k \in batch : Present(store[k]) /\ GlobMatch(scanPattern(j.prefix), k)}
         j1 == [j EXCEPT !.unvisited = @ \ batch, !.deleted = @ \cup keys,
                         !.count = @ + Cardinality(keys), !.rounds = @ + 1,
                         !.late = @ + (IF keys = {} THEN 1 ELSE 2)]
     IN IF ~RedisReady(World)
        THEN /\ job' = [job EXCEPT ![x].pc = "ended"]
             /\ store' = store
        ELSE /\ store' = [k \in DataKeys |-> IF k \in keys THEN Absent ELSE store[k]]
             /\ job' = [job EXCEPT ![x] = IF j1.unvisited = {} THEN [j1 EXCEPT !.pc = "ended"]
                                          ELSE j1]
  /\ notified' = <<>>
  /\ UNCHANGED <<provider, options, client, handles, calls, outcome, now, history, mock>>

\* SpecDetached: caller a calls removeByPrefix('p:*') on a client that b
\* connects, disconnects and connects again; the guard may fire at any
\* round.
InitDetached ==
  /\ InitConnection({o \in OptionSamples : ~o.autoConnect /\ ~o.maxReconnectAttempts.inf
                                           /\ o.onError = "graceful"})
  /\ \E content \in SUBSET DataKeys :
       store = [k \in DataKeys |-> IF k \in content THEN Holds("hello", NoTime) ELSE Absent]
  /\ mock = InitMock
  /\ job = [x \in Callers |-> IdleJob]
  /\ history = <<>>
  /\ provider = InitProvider

NextDetached ==
  \/ RemoveByPrefix("a", <<"p", ":", "*">>, "undefined")
  \/ \E batch \in SUBSET DataKeys : RemoveByPrefixRound("a", batch)
  \/ RemoveByPrefixTimeout("a")
  \/ \E batch \in SUBSET DataKeys : RemoveByPrefixLateRound("a", batch)
  \/ Connect("b")
  \/ Disconnect
  \/ Deliver
  \/ \E h \in 1..MaxHandles : DoConnectResume(h)
  \/ AwaitResume("b")
  \/ \E h \in 1..MaxHandles : DriverConnectOk(h)

SpecDetached == InitDetached /\ [][NextDetached]_vars

\* The loops whose call has returned to its caller.
Outlived == {x \in Callers : job[x].pc \in {"detached", "ended"}}

\* C38: once a command call has returned to its caller, the call issues no
\* further driver request and dereferences no driver handle; in particular
\* a removeByPrefix whose guard timed out performs no further SCAN or DEL
\* round afterwards, also when the client has meanwhile entered cooldown,
\* reconnected or been disconnected.
C38_NoRequestAfterReturn ==
  /\ [](\A x \in Outlived : job[x].late = 0)
  /\ [][\A x \in Callers : job[x].pc = "detached" => store' = store]_vars

\* What does hold: the loop that outlived its call touches none of the
\* client's fields and returns nothing to anybody.
C38_LateRoundsSilent ==
  [][\A x \in Callers : job[x].pc = "detached" /\ job'[x] # job[x] =>
       client' = client /\ outcome' = outcome /\ history' = history]_vars

\* ------------------------------------------------- the retry budget
\* C39: whenever maxReconnectAttempts is finite, reconnectAttempts never
\* exceeds maxReconnectAttempts in any reachable state.
C39_AttemptsWithinBudget ==
  ~options.maxReconnectAttempts.inf =>
     client.reconnectAttempts <= options.maxReconnectAttempts.n

\* ------------------------------------------------- what a success changes
\* The fields of the connection status other than lastSuccessAt.
StatusButLastSuccess(cl) ==
  <<cl.state, cl.reconnectAttempts, cl.cooldownEndsAt, cl.lastError, cl.lastFailedAt>>

\* This step records the success of a command (executeCommand's try block).
RecordsSuccess == outcome'.kind # "none" /\ outcome'.how = "success"

\* This step is the driver's answer to a request of caller x whose call had
\* returned by its guard.
AnswersAbandoned(x) ==
  /\ InFlightAbandoned(x)
  /\ ~InFlightAbandoned(x)'
  /\ calls'[x].pc = "idle"
  /\ outcome' = NoOutcome

\* C40: a command that completes successfully changes nothing of the
\* connection status except lastSuccessAt: state, reconnectAttempts,
\* cooldownEndsAt, lastError and lastFailedAt are as they were before the
\* success was recorded, even when the state left connected while the
\* command was in flight; and a driver answer that arrives after the call's
\* guard has timed out changes nothing at all.
C40_SuccessTouchesLastSuccessOnly ==
  [][/\ RecordsSuccess =>
          /\ StatusButLastSuccess(client') = StatusButLastSuccess(client)
          /\ client'.lastSuccessAt = now
          /\ notified' = <<>>
     /\ \A x \in Callers : AnswersAbandoned(x) =>
          /\ client' = client
          /\ handles' = handles
          /\ notified' = <<>>]_vars

\* A command has just succeeded although the state had left connected while
\* it was in flight, and the failure before it is still on record.
C40_Witness ==
  /\ outcome # NoOutcome
  /\ outcome.how = "success"
  /\ client.state = "cooldown"
  /\ outcome.pre.state = "cooldown"
  /\ client.reconnectAttempts > 0
  /\ client.lastSuccessAt = now
  /\ client.lastFailedAt # NoTime /\ client.lastFailedAt < now

\* A command has just succeeded while the request of the other caller,
\* abandoned by its guard, is still in flight.
C40_WitnessAbandoned ==
  /\ outcome # NoOutcome
  /\ outcome.how = "success"
  /\ \E x \in Callers : x # outcome.caller /\ InFlightAbandoned(x)

====
